---- MODULE Spec2Model ----
(***************************************************************************)
(* Model of the token ledger of src/token_mvp/program: the binary record   *)
(* codec (state.rs), the handlers of the instruction processor             *)
(* (processor.rs) and the accounts they are run on.                        *)
(*                                                                         *)
(* acct maps the key of an account of the host to [lamports, owner, data]; *)
(* data is the byte buffer, kept field group by field group exactly as     *)
(* pack_into_slice lays it out (a COption is its 4-byte tag and its body). *)
(* A handler is an operator from the accounts and the instruction's inputs *)
(* to the result code and the accounts after the call.  last and hist are  *)
(* history: the last instruction and what the properties over sequences    *)
(* need to remember of the earlier ones.                                   *)
(*                                                                         *)
(* state.rs declares Account without is_frozen, and pack_into_slice /      *)
(* unpack_from_slice neither write nor read such a field, while the        *)
(* handlers of processor.rs read account.is_frozen from a freshly decoded  *)
(* record.  The value they read is therefore not determined by the         *)
(* buffer: every handler takes it as an input (sfz, dfz, fz) that ranges   *)
(* over BOOLEAN.                                                           *)
(***************************************************************************)
EXTENDS Integers, FiniteSets, Sequences, TLC

VARIABLES acct, last, hist

vars == <<acct, last, hist>>

---------------------------------------------------------------------------
(* Bounds of the model *)

\* u64::MAX scaled down, so that checked_add / checked_sub overflow is reached
U64_MAX == 2

\* external lamport deposits stop at this balance
MaxLamports == 2

---------------------------------------------------------------------------
(* Keys and constants of the program *)

\* crate::id(), the token program
TOKEN == "TOKEN"

\* the program_id the minimal program (src/program) is entered with
MINIMAL == "MINIMAL"

\* the system program id "1111...1111": the all-zero key
SYSTEM == "SYSTEM"

\* the key a zeroed buffer decodes to
ZeroKey == SYSTEM

\* native_mint::id()
NATIVE == "NATIVE"

\* the rent sysvar account
RENT == "RENT"

MintLEN == 82

AccountLEN == 181

\* Rent::minimum_balance(data_len), scaled to one lamport for either record
minimum_balance(data_len) == 1

is_exempt(lamports, data_len) == lamports >= minimum_balance(data_len)

---------------------------------------------------------------------------
(* COption values of a decoded record *)

None == [some |-> FALSE]

Some(v) == [some |-> TRUE, v |-> v]

---------------------------------------------------------------------------
(* checked arithmetic on u64: the result, or no result on overflow *)

checked_add(a, b) == IF a + b > U64_MAX THEN None ELSE Some(a + b)

checked_sub(a, b) == IF a < b THEN None ELSE Some(a - b)

---------------------------------------------------------------------------
(* Binary record codec (state.rs) *)

ZeroMintData ==
    [len |-> MintLEN,
     mint_authority |-> [tag |-> 0, body |-> ZeroKey],
     supply |-> 0, decimals |-> 0, is_initialized |-> 0,
     freeze_authority |-> [tag |-> 0, body |-> ZeroKey]]

ZeroAccountData ==
    [len |-> AccountLEN,
     mint |-> ZeroKey, owner |-> ZeroKey, amount |-> 0, is_initialized |-> 0,
     is_native |-> [tag |-> 0, body |-> 0],
     delegate |-> [tag |-> 0, body |-> ZeroKey],
     delegated_amount |-> 0]

\* account_data.fill(0)
ZeroFill(data) ==
    IF data.len = MintLEN THEN ZeroMintData
    ELSE IF data.len = AccountLEN THEN ZeroAccountData
    ELSE data

\* None writes the tag only: the 32 body bytes keep what they held
pack_coption_key(src, dst) ==
    IF src.some THEN [tag |-> 1, body |-> src.v]
    ELSE [tag |-> 0, body |-> dst.body]

unpack_coption_key(src) ==
    IF src.tag = 0 THEN [err |-> "Ok", v |-> None]
    ELSE IF src.tag = 1 THEN [err |-> "Ok", v |-> Some(src.body)]
    ELSE [err |-> "InvalidAccountData"]

\* None zeroes the body as well
pack_coption_u64(src, dst) ==
    IF src.some THEN [tag |-> 1, body |-> src.v]
    ELSE [tag |-> 0, body |-> 0]

unpack_coption_u64(src) ==
    IF src.tag = 0 THEN [err |-> "Ok", v |-> None]
    ELSE IF src.tag = 1 THEN [err |-> "Ok", v |-> Some(src.body)]
    ELSE [err |-> "InvalidAccountData"]

BoolByte(b) == IF b THEN 1 ELSE 0

Mint_pack_into_slice(mint, dst) ==
    [len |-> MintLEN,
     mint_authority |-> pack_coption_key(mint.mint_authority, dst.mint_authority),
     supply |-> mint.supply,
     decimals |-> mint.decimals,
     is_initialized |-> BoolByte(mint.is_initialized),
     freeze_authority |-> pack_coption_key(mint.freeze_authority, dst.freeze_authority)]

Mint_unpack_from_slice(src) ==
    IF src.len # MintLEN THEN [err |-> "InvalidAccountData"]
    ELSE LET ma == unpack_coption_key(src.mint_authority)
             fa == unpack_coption_key(src.freeze_authority)
         IN IF ma.err # "Ok" THEN [err |-> ma.err]
            ELSE IF src.is_initialized \notin {0, 1} THEN [err |-> "InvalidAccountData"]
            ELSE IF fa.err # "Ok" THEN [err |-> fa.err]
            ELSE [err |-> "Ok",
                  v |-> [mint_authority |-> ma.v,
                         supply |-> src.supply,
                         decimals |-> src.decimals,
                         is_initialized |-> (src.is_initialized = 1),
                         freeze_authority |-> fa.v]]

Mint_unpack_unchecked(src) == Mint_unpack_from_slice(src)

\* Pack::unpack: the length, the decoding, then IsInitialized
Mint_unpack(src) ==
    IF src.len # MintLEN THEN [err |-> "InvalidAccountData"]
    ELSE LET r == Mint_unpack_from_slice(src)
         IN IF r.err # "Ok" THEN r
            ELSE IF ~r.v.is_initialized THEN [err |-> "UninitializedAccount"]
            ELSE r

\* the record has no is_frozen field: bytes 0..152 are written, nothing else
Account_pack_into_slice(account, dst) ==
    [len |-> AccountLEN,
     mint |-> account.mint,
     owner |-> account.owner,
     amount |-> account.amount,
     is_initialized |-> BoolByte(account.is_initialized),
     is_native |-> pack_coption_u64(account.is_native, dst.is_native),
     delegate |-> pack_coption_key(account.delegate, dst.delegate),
     delegated_amount |-> account.delegated_amount]

Account_unpack_from_slice(src) ==
    IF src.len # AccountLEN THEN [err |-> "InvalidAccountData"]
    ELSE LET nat == unpack_coption_u64(src.is_native)
             del == unpack_coption_key(src.delegate)
         IN IF src.is_initialized \notin {0, 1} THEN [err |-> "InvalidAccountData"]
            ELSE IF nat.err # "Ok" THEN [err |-> nat.err]
            ELSE IF del.err # "Ok" THEN [err |-> del.err]
            ELSE [err |-> "Ok",
                  v |-> [mint |-> src.mint,
                         owner |-> src.owner,
                         amount |-> src.amount,
                         is_initialized |-> (src.is_initialized = 1),
                         is_native |-> nat.v,
                         delegate |-> del.v,
                         delegated_amount |-> src.delegated_amount]]

Account_unpack_unchecked(src) == Account_unpack_from_slice(src)

Account_unpack(src) ==
    IF src.len # AccountLEN THEN [err |-> "InvalidAccountData"]
    ELSE LET r == Account_unpack_from_slice(src)
         IN IF r.err # "Ok" THEN r
            ELSE IF ~r.v.is_initialized THEN [err |-> "UninitializedAccount"]
            ELSE r

---------------------------------------------------------------------------
(* Results of a handler *)

Fail(ac, e) == [res |-> e, acct |-> ac]

Done(ac) == [res |-> "Ok", acct |-> ac]

\* account.data := the packed record
Store(ac, key, data) == [ac EXCEPT ![key].data = data]

\* an ownership check that accepts every account
check_program_account_any_owner(info) == "Ok"

check_program_account(info) ==
    IF info.owner # TOKEN THEN "IncorrectProgramId" ELSE "Ok"

\* Rent::from_account_info: only the rent sysvar account decodes as Rent
Rent_from_account_info(rent_sysvar) ==
    IF rent_sysvar # RENT THEN "InvalidArgument" ELSE "Ok"

---------------------------------------------------------------------------
(* Instruction processor (processor.rs) *)

\* process_initialize_mint without the check that the mint is not yet initialized
process_initialize_mint_unguarded(ac, mint_key, rent_sysvar, decimals, mint_authority, freeze_authority) ==
    LET mint_info == ac[mint_key]
        mint_data_len == mint_info.data.len
    IN IF Rent_from_account_info(rent_sysvar) # "Ok"
         THEN Fail(ac, Rent_from_account_info(rent_sysvar))
       ELSE IF check_program_account(mint_info) # "Ok"
         THEN Fail(ac, check_program_account(mint_info))
       ELSE IF ~is_exempt(mint_info.lamports, mint_data_len) THEN Fail(ac, "NotRentExempt")
       ELSE IF mint_data_len # MintLEN THEN Fail(ac, "InvalidAccountData")
       ELSE LET mint == [mint_authority |-> Some(mint_authority),
                         decimals |-> decimals,
                         supply |-> 0,
                         is_initialized |-> TRUE,
                         freeze_authority |-> freeze_authority]
            IN Done(Store(ac, mint_key, Mint_pack_into_slice(mint, mint_info.data)))

\* process_initialize_mint without the rent-exemption gate
process_initialize_mint_no_rent_gate(ac, mint_key, rent_sysvar, decimals, mint_authority, freeze_authority) ==
    LET mint_info == ac[mint_key]
        mint_data_len == mint_info.data.len
        um == Mint_unpack_unchecked(mint_info.data)
    IN IF Rent_from_account_info(rent_sysvar) # "Ok"
         THEN Fail(ac, Rent_from_account_info(rent_sysvar))
       ELSE IF check_program_account(mint_info) # "Ok"
         THEN Fail(ac, check_program_account(mint_info))
       ELSE IF um.err # "Ok" THEN Fail(ac, um.err)
       ELSE IF um.v.is_initialized THEN Fail(ac, "AlreadyInitialized")
       ELSE IF mint_data_len # MintLEN THEN Fail(ac, "InvalidAccountData")
       ELSE LET mint == [mint_authority |-> Some(mint_authority),
                         decimals |-> decimals,
                         supply |-> 0,
                         is_initialized |-> TRUE,
                         freeze_authority |-> freeze_authority]
            IN Done(Store(ac, mint_key, Mint_pack_into_slice(mint, mint_info.data)))

process_initialize_mint(ac, mint_key, rent_sysvar, decimals, mint_authority, freeze_authority) ==
    LET mint_info == ac[mint_key]
        mint_data_len == mint_info.data.len
        um == Mint_unpack_unchecked(mint_info.data)
    IN IF Rent_from_account_info(rent_sysvar) # "Ok"
         THEN Fail(ac, Rent_from_account_info(rent_sysvar))
       ELSE IF check_program_account(mint_info) # "Ok"
         THEN Fail(ac, check_program_account(mint_info))
       ELSE IF um.err # "Ok" THEN Fail(ac, um.err)
       ELSE IF um.v.is_initialized THEN Fail(ac, "AlreadyInitialized")
       ELSE IF ~is_exempt(mint_info.lamports, mint_data_len) THEN Fail(ac, "NotRentExempt")
       ELSE IF mint_data_len # MintLEN THEN Fail(ac, "InvalidAccountData")
       ELSE LET mint == [mint_authority |-> Some(mint_authority),
                         decimals |-> decimals,
                         supply |-> 0,
                         is_initialized |-> TRUE,
                         freeze_authority |-> freeze_authority]
            IN Done(Store(ac, mint_key, Mint_pack_into_slice(mint, mint_info.data)))

\* the fields process_initialize_account gives the new record
new_account(mint_key, owner_key, lamports, account_data_len) ==
    LET is_native_mint == (mint_key = NATIVE)
        rent_exempt_reserve == minimum_balance(account_data_len)
        native_amount == checked_sub(lamports, rent_exempt_reserve)
    IN IF is_native_mint /\ ~native_amount.some THEN [err |-> "Overflow"]
       ELSE [err |-> "Ok",
             v |-> [mint |-> mint_key,
                    owner |-> owner_key,
                    is_initialized |-> TRUE,
                    delegate |-> None,
                    delegated_amount |-> 0,
                    is_native |-> IF is_native_mint THEN Some(rent_exempt_reserve) ELSE None,
                    amount |-> IF is_native_mint THEN native_amount.v ELSE 0]]

\* process_initialize_account without the check that the account is not yet
\* initialized
process_initialize_account_unguarded(ac, account_key, mint_key, owner_key, rent_sysvar) ==
    LET account_info == ac[account_key]
        mint_info == ac[mint_key]
        account_data_len == account_info.data.len
        um == Mint_unpack(mint_info.data)
        ua == Account_unpack_unchecked(account_info.data)
        na == new_account(mint_key, owner_key, account_info.lamports, account_data_len)
    IN IF Rent_from_account_info(rent_sysvar) # "Ok"
         THEN Fail(ac, Rent_from_account_info(rent_sysvar))
       ELSE IF check_program_account(account_info) # "Ok"
         THEN Fail(ac, check_program_account(account_info))
       ELSE IF um.err # "Ok" THEN Fail(ac, um.err)
       ELSE IF ua.err # "Ok" THEN Fail(ac, ua.err)
       ELSE IF ~is_exempt(account_info.lamports, account_data_len) THEN Fail(ac, "NotRentExempt")
       ELSE IF account_data_len # AccountLEN THEN Fail(ac, "InvalidAccountData")
       ELSE IF na.err # "Ok" THEN Fail(ac, na.err)
       ELSE Done(Store(ac, account_key, Account_pack_into_slice(na.v, account_info.data)))

process_initialize_account(ac, account_key, mint_key, owner_key, rent_sysvar) ==
    LET account_info == ac[account_key]
        mint_info == ac[mint_key]
        account_data_len == account_info.data.len
        um == Mint_unpack(mint_info.data)
        ua == Account_unpack_unchecked(account_info.data)
        na == new_account(mint_key, owner_key, account_info.lamports, account_data_len)
    IN IF Rent_from_account_info(rent_sysvar) # "Ok"
         THEN Fail(ac, Rent_from_account_info(rent_sysvar))
       ELSE IF check_program_account(account_info) # "Ok"
         THEN Fail(ac, check_program_account(account_info))
       ELSE IF um.err # "Ok" THEN Fail(ac, um.err)
       ELSE IF ~um.v.is_initialized THEN Fail(ac, "InvalidMint")
       ELSE IF ua.err # "Ok" THEN Fail(ac, ua.err)
       ELSE IF ua.v.is_initialized THEN Fail(ac, "AlreadyInitialized")
       ELSE IF ~is_exempt(account_info.lamports, account_data_len) THEN Fail(ac, "NotRentExempt")
       ELSE IF account_data_len # AccountLEN THEN Fail(ac, "InvalidAccountData")
       ELSE IF na.err # "Ok" THEN Fail(ac, na.err)
       ELSE Done(Store(ac, account_key, Account_pack_into_slice(na.v, account_info.data)))

\* a delegate check that does not charge the transfer to the allowance
transfer_authority_allowance_kept(source_account, authority, is_signer, amount, self_transfer) ==
    IF source_account.delegate.some /\ source_account.delegate.v = authority
    THEN IF ~is_signer THEN [err |-> "InvalidOwner"]
         ELSE IF source_account.delegated_amount < amount THEN [err |-> "InsufficientFunds"]
         ELSE [err |-> "Ok", v |-> source_account]
    ELSE IF source_account.owner # authority THEN [err |-> "InvalidOwner"]
         ELSE IF ~is_signer THEN [err |-> "InvalidOwner"]
         ELSE [err |-> "Ok", v |-> source_account]

\* a delegate check that keeps the delegate when the allowance is used up
transfer_authority_delegate_kept(source_account, authority, is_signer, amount, self_transfer) ==
    IF source_account.delegate.some /\ source_account.delegate.v = authority
    THEN IF ~is_signer THEN [err |-> "InvalidOwner"]
         ELSE IF source_account.delegated_amount < amount THEN [err |-> "InsufficientFunds"]
         ELSE IF ~self_transfer
              THEN [err |-> "Ok",
                    v |-> [source_account EXCEPT !.delegated_amount = @ - amount]]
              ELSE [err |-> "Ok", v |-> source_account]
    ELSE IF source_account.owner # authority THEN [err |-> "InvalidOwner"]
         ELSE IF ~is_signer THEN [err |-> "InvalidOwner"]
         ELSE [err |-> "Ok", v |-> source_account]

\* the match on source_account.delegate of process_transfer: the error, or the
\* source record as the authority check leaves it
\* an authority check that accepts any signer on an account without that delegate
transfer_authority_any_signer(source_account, authority, is_signer, amount, self_transfer) ==
    IF source_account.delegate.some /\ source_account.delegate.v = authority
    THEN IF ~is_signer THEN [err |-> "InvalidOwner"]
         ELSE IF source_account.delegated_amount < amount THEN [err |-> "InsufficientFunds"]
         ELSE IF ~self_transfer
              THEN LET left == checked_sub(source_account.delegated_amount, amount)
                   IN IF ~left.some THEN [err |-> "Overflow"]
                      ELSE [err |-> "Ok",
                            v |-> [source_account EXCEPT
                                     !.delegated_amount = left.v,
                                     !.delegate = IF left.v = 0 THEN None ELSE @]]
              ELSE [err |-> "Ok", v |-> source_account]
    ELSE IF ~is_signer THEN [err |-> "InvalidOwner"]
         ELSE [err |-> "Ok", v |-> source_account]

\* a delegate check that does not compare the amount with the allowance
transfer_authority_allowance_unchecked(source_account, authority, is_signer, amount, self_transfer) ==
    IF source_account.delegate.some /\ source_account.delegate.v = authority
    THEN IF ~is_signer THEN [err |-> "InvalidOwner"]
         ELSE IF ~self_transfer
              THEN LET left == checked_sub(source_account.delegated_amount, amount)
                   IN IF ~left.some THEN [err |-> "Overflow"]
                      ELSE [err |-> "Ok",
                            v |-> [source_account EXCEPT
                                     !.delegated_amount = left.v,
                                     !.delegate = IF left.v = 0 THEN None ELSE @]]
              ELSE [err |-> "Ok", v |-> source_account]
    ELSE IF source_account.owner # authority THEN [err |-> "InvalidOwner"]
         ELSE IF ~is_signer THEN [err |-> "InvalidOwner"]
         ELSE [err |-> "Ok", v |-> source_account]

\* transfer_authority that clears the delegate on every delegate transfer
transfer_authority_delegate_dropped(source_account, authority, is_signer, amount, self_transfer) ==
    IF source_account.delegate.some /\ source_account.delegate.v = authority
    THEN IF ~is_signer THEN [err |-> "InvalidOwner"]
         ELSE IF source_account.delegated_amount < amount THEN [err |-> "InsufficientFunds"]
         ELSE IF ~self_transfer
              THEN LET left == checked_sub(source_account.delegated_amount, amount)
                   IN IF ~left.some THEN [err |-> "Overflow"]
                      ELSE [err |-> "Ok",
                            v |-> [source_account EXCEPT
                                     !.delegated_amount = left.v,
                                     !.delegate = None]]
              ELSE [err |-> "Ok", v |-> source_account]
    ELSE IF source_account.owner # authority THEN [err |-> "InvalidOwner"]
         ELSE IF ~is_signer THEN [err |-> "InvalidOwner"]
         ELSE [err |-> "Ok", v |-> source_account]

transfer_authority(source_account, authority, is_signer, amount, self_transfer) ==
    IF source_account.delegate.some /\ source_account.delegate.v = authority
    THEN IF ~is_signer THEN [err |-> "InvalidOwner"]
         ELSE IF source_account.delegated_amount < amount THEN [err |-> "InsufficientFunds"]
         ELSE IF ~self_transfer
              THEN LET left == checked_sub(source_account.delegated_amount, amount)
                   IN IF ~left.some THEN [err |-> "Overflow"]
                      ELSE [err |-> "Ok",
                            v |-> [source_account EXCEPT
                                     !.delegated_amount = left.v,
                                     !.delegate = IF left.v = 0 THEN None ELSE @]]
              ELSE [err |-> "Ok", v |-> source_account]
    ELSE IF source_account.owner # authority THEN [err |-> "InvalidOwner"]
         ELSE IF ~is_signer THEN [err |-> "InvalidOwner"]
         ELSE [err |-> "Ok", v |-> source_account]

\* a transfer that leaves the balance check to the checked subtraction
transfer_amounts_unchecked_balance(source_account, destination_account, amount) ==
    LET s == checked_sub(source_account.amount, amount)
        d == checked_add(destination_account.amount, amount)
    IN IF ~s.some THEN [err |-> "Overflow"]
       ELSE IF ~d.some THEN [err |-> "Overflow"]
       ELSE [err |-> "Ok",
             src |-> [source_account EXCEPT !.amount = s.v],
             dst |-> [destination_account EXCEPT !.amount = d.v]]

\* "Perform transfer": the two records after the move, or the error
transfer_amounts(source_account, destination_account, amount) ==
    LET s == checked_sub(source_account.amount, amount)
        d == checked_add(destination_account.amount, amount)
    IN IF source_account.amount < amount THEN [err |-> "InsufficientFunds"]
       ELSE IF ~s.some THEN [err |-> "Overflow"]
       ELSE IF ~d.some THEN [err |-> "Overflow"]
       ELSE [err |-> "Ok",
             src |-> [source_account EXCEPT !.amount = s.v],
             dst |-> [destination_account EXCEPT !.amount = d.v]]

process_transfer(ac, source_key, destination_key, authority, is_signer, sw, dw, amount, sfz, dfz) ==
    LET source_info == ac[source_key]
        destination_info == ac[destination_key]
        us == Account_unpack(source_info.data)
        ud == Account_unpack(destination_info.data)
        self_transfer == (source_key = destination_key)
        au == transfer_authority(us.v, authority, is_signer, amount, self_transfer)
        mv == transfer_amounts(au.v, ud.v, amount)
    IN IF check_program_account(source_info) # "Ok"
         THEN Fail(ac, check_program_account(source_info))
       ELSE IF check_program_account(destination_info) # "Ok"
         THEN Fail(ac, check_program_account(destination_info))
       ELSE IF ~sw THEN Fail(ac, "InvalidOwner")
       ELSE IF ~dw THEN Fail(ac, "InvalidOwner")
       ELSE IF us.err # "Ok" THEN Fail(ac, us.err)
       ELSE IF ~us.v.is_initialized THEN Fail(ac, "NotInitialized")
       ELSE IF sfz THEN Fail(ac, "AccountFrozen")
       ELSE IF ud.err # "Ok" THEN Fail(ac, ud.err)
       ELSE IF ~ud.v.is_initialized THEN Fail(ac, "NotInitialized")
       ELSE IF dfz THEN Fail(ac, "AccountFrozen")
       ELSE IF us.v.mint # ud.v.mint THEN Fail(ac, "MintMismatch")
       ELSE IF au.err # "Ok" THEN Fail(ac, au.err)
       ELSE IF self_transfer THEN Done(ac)
       ELSE IF mv.err # "Ok" THEN Fail(ac, mv.err)
       ELSE Done(Store(Store(ac, source_key,
                             Account_pack_into_slice(mv.src, source_info.data)),
                       destination_key,
                       Account_pack_into_slice(mv.dst, destination_info.data)))

\* an authority check that lets anyone who signs mint once the authority is None
mint_to_authority_none_accepted(mint, authority, is_signer) ==
    IF mint.mint_authority.some /\ mint.mint_authority.v # authority THEN "InvalidOwner"
    ELSE IF ~is_signer THEN "InvalidOwner"
    ELSE "Ok"

\* "Validate mint authority exists and matches", then the signer
\* an authority check that accepts whoever signs
mint_to_authority_any_signer(mint, authority, is_signer) ==
    IF ~mint.mint_authority.some THEN "InvalidMint"
    ELSE IF ~is_signer THEN "InvalidOwner"
    ELSE "Ok"

mint_to_authority(mint, authority, is_signer) ==
    IF ~mint.mint_authority.some THEN "InvalidMint"
    ELSE IF mint.mint_authority.v # authority THEN "InvalidOwner"
    ELSE IF ~is_signer THEN "InvalidOwner"
    ELSE "Ok"

\* a MintTo that credits the destination and leaves the supply as it was
mint_to_amounts_supply_kept(mint, destination_account, amount) ==
    LET d == checked_add(destination_account.amount, amount)
    IN IF ~d.some THEN [err |-> "Overflow"]
       ELSE [err |-> "Ok",
             mint |-> mint,
             dst |-> [destination_account EXCEPT !.amount = d.v]]

\* a MintTo whose additions wrap around instead of failing
mint_to_amounts_wrapping(mint, destination_account, amount) ==
    [err |-> "Ok",
     mint |-> [mint EXCEPT !.supply = (@ + amount) % (U64_MAX + 1)],
     dst |-> [destination_account EXCEPT !.amount = (@ + amount) % (U64_MAX + 1)]]

\* "Perform minting": the two records after the mint, or the error
mint_to_amounts(mint, destination_account, amount) ==
    LET s == checked_add(mint.supply, amount)
        d == checked_add(destination_account.amount, amount)
    IN IF ~s.some THEN [err |-> "Overflow"]
       ELSE IF ~d.some THEN [err |-> "Overflow"]
       ELSE [err |-> "Ok",
             mint |-> [mint EXCEPT !.supply = s.v],
             dst |-> [destination_account EXCEPT !.amount = d.v]]

process_mint_to(ac, mint_key, destination_key, authority, is_signer, mw, dw, amount) ==
    LET mint_info == ac[mint_key]
        destination_info == ac[destination_key]
        um == Mint_unpack(mint_info.data)
        ud == Account_unpack(destination_info.data)
        mv == mint_to_amounts(um.v, ud.v, amount)
    IN IF check_program_account(mint_info) # "Ok"
         THEN Fail(ac, check_program_account(mint_info))
       ELSE IF check_program_account(destination_info) # "Ok"
         THEN Fail(ac, check_program_account(destination_info))
       ELSE IF ~mw THEN Fail(ac, "InvalidOwner")
       ELSE IF ~dw THEN Fail(ac, "InvalidOwner")
       ELSE IF um.err # "Ok" THEN Fail(ac, um.err)
       ELSE IF ~um.v.is_initialized THEN Fail(ac, "InvalidMint")
       ELSE IF mint_to_authority(um.v, authority, is_signer) # "Ok"
         THEN Fail(ac, mint_to_authority(um.v, authority, is_signer))
       ELSE IF ud.err # "Ok" THEN Fail(ac, ud.err)
       ELSE IF ~ud.v.is_initialized THEN Fail(ac, "NotInitialized")
       ELSE IF ud.v.mint # mint_key THEN Fail(ac, "MintMismatch")
       ELSE IF mv.err # "Ok" THEN Fail(ac, mv.err)
       ELSE Done(Store(Store(ac, mint_key,
                             Mint_pack_into_slice(mv.mint, mint_info.data)),
                       destination_key,
                       Account_pack_into_slice(mv.dst, destination_info.data)))

\* a Burn that accepts the owner's key without its signature
burn_authority_unsigned(account, authority, is_signer) ==
    IF account.owner # authority THEN "InvalidOwner"
    ELSE "Ok"

\* "Validate authority is the owner", then the signer
\* an authority check that lets the account's delegate burn as well
burn_authority_delegate_accepted(account, authority, is_signer) ==
    IF account.owner # authority /\ account.delegate # Some(authority) THEN "InvalidOwner"
    ELSE IF ~is_signer THEN "InvalidOwner"
    ELSE "Ok"

burn_authority(account, authority, is_signer) ==
    IF account.owner # authority THEN "InvalidOwner"
    ELSE IF ~is_signer THEN "InvalidOwner"
    ELSE "Ok"

\* a Burn that debits the account and leaves the supply as it was
burn_amounts_supply_kept(account, mint, amount) ==
    LET a == checked_sub(account.amount, amount)
    IN IF account.amount < amount THEN [err |-> "InsufficientFunds"]
       ELSE [err |-> "Ok",
             account |-> [account EXCEPT !.amount = a.v],
             mint |-> mint]

\* "Perform burn": the two records after the burn, or the error
burn_amounts(account, mint, amount) ==
    LET a == checked_sub(account.amount, amount)
        s == checked_sub(mint.supply, amount)
    IN IF account.amount < amount THEN [err |-> "InsufficientFunds"]
       ELSE IF ~a.some THEN [err |-> "Overflow"]
       ELSE IF ~s.some THEN [err |-> "Overflow"]
       ELSE [err |-> "Ok",
             account |-> [account EXCEPT !.amount = a.v],
             mint |-> [mint EXCEPT !.supply = s.v]]

process_burn(ac, account_key, mint_key, authority, is_signer, aw, mw, amount, fz) ==
    LET account_info == ac[account_key]
        mint_info == ac[mint_key]
        ua == Account_unpack(account_info.data)
        um == Mint_unpack(mint_info.data)
        mv == burn_amounts(ua.v, um.v, amount)
    IN IF check_program_account(account_info) # "Ok"
         THEN Fail(ac, check_program_account(account_info))
       ELSE IF check_program_account(mint_info) # "Ok"
         THEN Fail(ac, check_program_account(mint_info))
       ELSE IF ~aw THEN Fail(ac, "InvalidOwner")
       ELSE IF ~mw THEN Fail(ac, "InvalidOwner")
       ELSE IF ua.err # "Ok" THEN Fail(ac, ua.err)
       ELSE IF ~ua.v.is_initialized THEN Fail(ac, "NotInitialized")
       ELSE IF fz THEN Fail(ac, "AccountFrozen")
       ELSE IF um.err # "Ok" THEN Fail(ac, um.err)
       ELSE IF ~um.v.is_initialized THEN Fail(ac, "InvalidMint")
       ELSE IF ua.v.mint # mint_key THEN Fail(ac, "MintMismatch")
       ELSE IF burn_authority(ua.v, authority, is_signer) # "Ok"
         THEN Fail(ac, burn_authority(ua.v, authority, is_signer))
       ELSE IF mv.err # "Ok" THEN Fail(ac, mv.err)
       ELSE Done(Store(Store(ac, account_key,
                             Account_pack_into_slice(mv.account, account_info.data)),
                       mint_key,
                       Mint_pack_into_slice(mv.mint, mint_info.data)))

\* a SyncNative that sets the amount whether or not it is lower than the stored one
process_sync_native_decreasing(ac, native_key) ==
    LET native_account_info == ac[native_key]
        ua == Account_unpack(native_account_info.data)
        new_amount == checked_sub(native_account_info.lamports, ua.v.is_native.v)
    IN IF check_program_account(native_account_info) # "Ok"
         THEN Fail(ac, check_program_account(native_account_info))
       ELSE IF ua.err # "Ok" THEN Fail(ac, ua.err)
       ELSE IF ~ua.v.is_native.some THEN Fail(ac, "NonNativeNotSupported")
       ELSE IF ~new_amount.some THEN Fail(ac, "Overflow")
       ELSE Done(Store(ac, native_key,
                       Account_pack_into_slice([ua.v EXCEPT !.amount = new_amount.v],
                                               native_account_info.data)))

process_sync_native(ac, native_key) ==
    LET native_account_info == ac[native_key]
        ua == Account_unpack(native_account_info.data)
        new_amount == checked_sub(native_account_info.lamports, ua.v.is_native.v)
    IN IF check_program_account(native_account_info) # "Ok"
         THEN Fail(ac, check_program_account(native_account_info))
       ELSE IF ua.err # "Ok" THEN Fail(ac, ua.err)
       ELSE IF ~ua.v.is_native.some THEN Fail(ac, "NonNativeNotSupported")
       ELSE IF ~new_amount.some THEN Fail(ac, "Overflow")
       ELSE IF new_amount.v < ua.v.amount THEN Fail(ac, "InvalidState")
       ELSE Done(Store(ac, native_key,
                       Account_pack_into_slice([ua.v EXCEPT !.amount = new_amount.v],
                                               native_account_info.data)))

\* "Validate owner is the account owner", then the signer
\* an Approve that any signing key authorizes
approve_authority_any_signer(source_account, owner_key, is_signer) ==
    IF ~is_signer THEN "InvalidOwner" ELSE "Ok"

approve_authority(source_account, owner_key, is_signer) ==
    IF source_account.owner # owner_key THEN "InvalidOwner"
    ELSE IF ~is_signer THEN "InvalidOwner"
    ELSE "Ok"

\* an Approve that stores the delegate before it has checked the owner
process_approve_early_write(ac, source_key, delegate_key, owner_key, is_signer, sw, amount, fz) ==
    LET source_account_info == ac[source_key]
        ua == Account_unpack(source_account_info.data)
        written == Store(ac, source_key,
                         Account_pack_into_slice(
                             [ua.v EXCEPT !.delegate = Some(delegate_key),
                                          !.delegated_amount = amount],
                             source_account_info.data))
    IN IF check_program_account(source_account_info) # "Ok"
         THEN Fail(ac, check_program_account(source_account_info))
       ELSE IF ~sw THEN Fail(ac, "InvalidOwner")
       ELSE IF ua.err # "Ok" THEN Fail(ac, ua.err)
       ELSE IF ~ua.v.is_initialized THEN Fail(ac, "NotInitialized")
       ELSE IF fz THEN Fail(ac, "AccountFrozen")
       ELSE IF approve_authority(ua.v, owner_key, is_signer) # "Ok"
         THEN Fail(written, approve_authority(ua.v, owner_key, is_signer))
       ELSE Done(written)

\* an Approve that adds the amount to the allowance the account already has
process_approve_accumulating(ac, source_key, delegate_key, owner_key, is_signer, sw, amount, fz) ==
    LET source_account_info == ac[source_key]
        ua == Account_unpack(source_account_info.data)
    IN IF check_program_account(source_account_info) # "Ok"
         THEN Fail(ac, check_program_account(source_account_info))
       ELSE IF ~sw THEN Fail(ac, "InvalidOwner")
       ELSE IF ua.err # "Ok" THEN Fail(ac, ua.err)
       ELSE IF fz THEN Fail(ac, "AccountFrozen")
       ELSE IF approve_authority(ua.v, owner_key, is_signer) # "Ok"
         THEN Fail(ac, approve_authority(ua.v, owner_key, is_signer))
       ELSE Done(Store(ac, source_key,
                       Account_pack_into_slice(
                           [ua.v EXCEPT !.delegate = Some(delegate_key),
                                        !.delegated_amount = (@ + amount) % (U64_MAX + 1)],
                           source_account_info.data)))

\* process_approve that also hands the account to the delegate
process_approve_owner_replaced(ac, source_key, delegate_key, owner_key, is_signer, sw, amount, fz) ==
    LET source_account_info == ac[source_key]
        ua == Account_unpack(source_account_info.data)
    IN IF check_program_account(source_account_info) # "Ok"
         THEN Fail(ac, check_program_account(source_account_info))
       ELSE IF ~sw THEN Fail(ac, "InvalidOwner")
       ELSE IF ua.err # "Ok" THEN Fail(ac, ua.err)
       ELSE IF ~ua.v.is_initialized THEN Fail(ac, "NotInitialized")
       ELSE IF fz THEN Fail(ac, "AccountFrozen")
       ELSE IF approve_authority(ua.v, owner_key, is_signer) # "Ok"
         THEN Fail(ac, approve_authority(ua.v, owner_key, is_signer))
       ELSE Done(Store(ac, source_key,
                       Account_pack_into_slice(
                           [ua.v EXCEPT !.delegate = Some(delegate_key),
                                        !.delegated_amount = amount,
                                        !.owner = delegate_key],
                           source_account_info.data)))

process_approve(ac, source_key, delegate_key, owner_key, is_signer, sw, amount, fz) ==
    LET source_account_info == ac[source_key]
        ua == Account_unpack(source_account_info.data)
    IN IF check_program_account(source_account_info) # "Ok"
         THEN Fail(ac, check_program_account(source_account_info))
       ELSE IF ~sw THEN Fail(ac, "InvalidOwner")
       ELSE IF ua.err # "Ok" THEN Fail(ac, ua.err)
       ELSE IF ~ua.v.is_initialized THEN Fail(ac, "NotInitialized")
       ELSE IF fz THEN Fail(ac, "AccountFrozen")
       ELSE IF approve_authority(ua.v, owner_key, is_signer) # "Ok"
         THEN Fail(ac, approve_authority(ua.v, owner_key, is_signer))
       ELSE Done(Store(ac, source_key,
                       Account_pack_into_slice(
                           [ua.v EXCEPT !.delegate = Some(delegate_key),
                                        !.delegated_amount = amount],
                           source_account_info.data)))

\* "Validate authority is the account owner", then the signer
close_authority(source_account, authority, is_signer) ==
    IF source_account.owner # authority THEN "InvalidOwner"
    ELSE IF ~is_signer THEN "InvalidOwner"
    ELSE "Ok"

\* a balance check that lets an account that still holds tokens be closed
close_balance_ignored(source_account) == "Ok"

\* "For non-native accounts, balance must be zero"
close_balance(source_account) ==
    IF ~source_account.is_native.some /\ source_account.amount # 0
    THEN "InvalidState" ELSE "Ok"

\* a closing that credits the destination and leaves the source its lamports
process_close_account_lamports_kept(ac, source_key, destination_key, authority, is_signer) ==
    LET source_account_info == ac[source_key]
        ua == Account_unpack(source_account_info.data)
        total == checked_add(ac[destination_key].lamports, source_account_info.lamports)
    IN IF source_key = destination_key THEN Fail(ac, "InvalidAccountData")
       ELSE IF check_program_account(source_account_info) # "Ok"
         THEN Fail(ac, check_program_account(source_account_info))
       ELSE IF ua.err # "Ok" THEN Fail(ac, ua.err)
       ELSE IF ~ua.v.is_initialized THEN Fail(ac, "NotInitialized")
       ELSE IF close_balance(ua.v) # "Ok" THEN Fail(ac, close_balance(ua.v))
       ELSE IF close_authority(ua.v, authority, is_signer) # "Ok"
         THEN Fail(ac, close_authority(ua.v, authority, is_signer))
       ELSE IF ~total.some THEN Fail(ac, "Overflow")
       ELSE Done([ac EXCEPT ![destination_key].lamports = total.v,
                            ![source_key].owner = SYSTEM,
                            ![source_key].data = ZeroFill(@)])

process_close_account(ac, source_key, destination_key, authority, is_signer) ==
    LET source_account_info == ac[source_key]
        destination_account_info == ac[destination_key]
        ua == Account_unpack(source_account_info.data)
        source_lamports == source_account_info.lamports
        destination_starting_lamports == destination_account_info.lamports
        total == checked_add(destination_starting_lamports, source_lamports)
    IN IF source_key = destination_key THEN Fail(ac, "InvalidAccountData")
       ELSE IF check_program_account(source_account_info) # "Ok"
         THEN Fail(ac, check_program_account(source_account_info))
       ELSE IF ua.err # "Ok" THEN Fail(ac, ua.err)
       ELSE IF ~ua.v.is_initialized THEN Fail(ac, "NotInitialized")
       ELSE IF close_balance(ua.v) # "Ok" THEN Fail(ac, close_balance(ua.v))
       ELSE IF close_authority(ua.v, authority, is_signer) # "Ok"
         THEN Fail(ac, close_authority(ua.v, authority, is_signer))
       ELSE IF ~total.some THEN Fail(ac, "Overflow")
       ELSE Done([ac EXCEPT ![destination_key].lamports = total.v,
                            ![source_key].lamports = 0,
                            ![source_key].owner = SYSTEM,
                            ![source_key].data = ZeroFill(@)])

\* a freeze authority check that lets anyone who signs freeze when the mint has none
freeze_authority_check_none_accepted(mint, authority, is_signer) ==
    IF mint.freeze_authority.some /\ mint.freeze_authority.v # authority THEN "InvalidOwner"
    ELSE IF ~is_signer THEN "InvalidOwner"
    ELSE "Ok"

\* the match on mint.freeze_authority of process_freeze_account / process_thaw_account
freeze_authority_check(mint, authority, is_signer) ==
    IF mint.freeze_authority.some
    THEN IF mint.freeze_authority.v # authority THEN "InvalidOwner"
         ELSE IF ~is_signer THEN "InvalidOwner"
         ELSE "Ok"
    ELSE "MintCannotFreeze"

\* process_freeze_account without the is_native check
process_freeze_account_native_unchecked(ac, account_key, mint_key, authority, is_signer, aw, fz) ==
    LET account_info == ac[account_key]
        mint_info == ac[mint_key]
        ua == Account_unpack(account_info.data)
        um == Mint_unpack(mint_info.data)
    IN IF check_program_account(account_info) # "Ok"
         THEN Fail(ac, check_program_account(account_info))
       ELSE IF ~aw THEN Fail(ac, "InvalidOwner")
       ELSE IF ua.err # "Ok" THEN Fail(ac, ua.err)
       ELSE IF ~ua.v.is_initialized THEN Fail(ac, "NotInitialized")
       ELSE IF fz THEN Fail(ac, "InvalidState")
       ELSE IF ua.v.mint # mint_key THEN Fail(ac, "MintMismatch")
       ELSE IF um.err # "Ok" THEN Fail(ac, um.err)
       ELSE IF freeze_authority_check(um.v, authority, is_signer) # "Ok"
         THEN Fail(ac, freeze_authority_check(um.v, authority, is_signer))
       ELSE Done(Store(ac, account_key, Account_pack_into_slice(ua.v, account_info.data)))

process_freeze_account(ac, account_key, mint_key, authority, is_signer, aw, fz) ==
    LET account_info == ac[account_key]
        mint_info == ac[mint_key]
        ua == Account_unpack(account_info.data)
        um == Mint_unpack(mint_info.data)
    IN IF check_program_account(account_info) # "Ok"
         THEN Fail(ac, check_program_account(account_info))
       ELSE IF ~aw THEN Fail(ac, "InvalidOwner")
       ELSE IF ua.err # "Ok" THEN Fail(ac, ua.err)
       ELSE IF ~ua.v.is_initialized THEN Fail(ac, "NotInitialized")
       ELSE IF fz THEN Fail(ac, "InvalidState")
       ELSE IF ua.v.is_native.some THEN Fail(ac, "NonNativeNotSupported")
       ELSE IF ua.v.mint # mint_key THEN Fail(ac, "MintMismatch")
       ELSE IF um.err # "Ok" THEN Fail(ac, um.err)
       ELSE IF freeze_authority_check(um.v, authority, is_signer) # "Ok"
         THEN Fail(ac, freeze_authority_check(um.v, authority, is_signer))
       \* account.is_frozen = true, then Account::pack, which stores no is_frozen
       ELSE Done(Store(ac, account_key, Account_pack_into_slice(ua.v, account_info.data)))

process_thaw_account(ac, account_key, mint_key, authority, is_signer, aw, fz) ==
    LET account_info == ac[account_key]
        mint_info == ac[mint_key]
        ua == Account_unpack(account_info.data)
        um == Mint_unpack(mint_info.data)
    IN IF check_program_account(account_info) # "Ok"
         THEN Fail(ac, check_program_account(account_info))
       ELSE IF ~aw THEN Fail(ac, "InvalidOwner")
       ELSE IF ua.err # "Ok" THEN Fail(ac, ua.err)
       ELSE IF ~ua.v.is_initialized THEN Fail(ac, "NotInitialized")
       ELSE IF ~fz THEN Fail(ac, "InvalidState")
       ELSE IF ua.v.is_native.some THEN Fail(ac, "NonNativeNotSupported")
       ELSE IF ua.v.mint # mint_key THEN Fail(ac, "MintMismatch")
       ELSE IF um.err # "Ok" THEN Fail(ac, um.err)
       ELSE IF freeze_authority_check(um.v, authority, is_signer) # "Ok"
         THEN Fail(ac, freeze_authority_check(um.v, authority, is_signer))
       \* account.is_frozen = false, then Account::pack, which stores no is_frozen
       ELSE Done(Store(ac, account_key, Account_pack_into_slice(ua.v, account_info.data)))

---------------------------------------------------------------------------
(* Handlers the instruction set declares (instruction.rs: Revoke,          *)
(* SetAuthority) and the tests call, whose code is not part of             *)
(* processor.rs: modelled from their description.                          *)

process_revoke(ac, source_key, owner_key, is_signer, sw, fz) ==
    LET source_account_info == ac[source_key]
        ua == Account_unpack(source_account_info.data)
    IN IF check_program_account(source_account_info) # "Ok"
         THEN Fail(ac, check_program_account(source_account_info))
       ELSE IF ~sw THEN Fail(ac, "InvalidOwner")
       ELSE IF ua.err # "Ok" THEN Fail(ac, ua.err)
       ELSE IF fz THEN Fail(ac, "AccountFrozen")
       ELSE IF ua.v.owner # owner_key THEN Fail(ac, "InvalidOwner")
       ELSE IF ~is_signer THEN Fail(ac, "InvalidOwner")
       ELSE Done(Store(ac, source_key,
                       Account_pack_into_slice(
                           [ua.v EXCEPT !.delegate = None, !.delegated_amount = 0],
                           source_account_info.data)))

process_set_authority(ac, key, authority, is_signer, w, authority_type, new_authority) ==
    LET info == ac[key]
        um == Mint_unpack(info.data)
        ua == Account_unpack(info.data)
    IN IF check_program_account(info) # "Ok"
         THEN Fail(ac, check_program_account(info))
       ELSE IF ~w THEN Fail(ac, "InvalidOwner")
       ELSE IF authority_type = "MintTokens"
         THEN IF um.err # "Ok" THEN Fail(ac, um.err)
              ELSE IF ~um.v.mint_authority.some THEN Fail(ac, "InvalidMint")
              ELSE IF um.v.mint_authority.v # authority THEN Fail(ac, "InvalidOwner")
              ELSE IF ~is_signer THEN Fail(ac, "InvalidOwner")
              ELSE Done(Store(ac, key,
                              Mint_pack_into_slice(
                                  [um.v EXCEPT !.mint_authority = new_authority],
                                  info.data)))
       ELSE IF authority_type = "FreezeAccount"
         THEN IF um.err # "Ok" THEN Fail(ac, um.err)
              ELSE IF ~um.v.freeze_authority.some THEN Fail(ac, "MintCannotFreeze")
              ELSE IF um.v.freeze_authority.v # authority THEN Fail(ac, "InvalidOwner")
              ELSE IF ~is_signer THEN Fail(ac, "InvalidOwner")
              ELSE Done(Store(ac, key,
                              Mint_pack_into_slice(
                                  [um.v EXCEPT !.freeze_authority = new_authority],
                                  info.data)))
       ELSE IF authority_type = "AccountOwner"
         THEN IF ua.err # "Ok" THEN Fail(ac, ua.err)
              ELSE IF ua.v.owner # authority THEN Fail(ac, "InvalidOwner")
              ELSE IF ~is_signer THEN Fail(ac, "InvalidOwner")
              ELSE IF ~new_authority.some THEN Fail(ac, "InvalidInstruction")
              ELSE Done(Store(ac, key,
                              Account_pack_into_slice(
                                  [ua.v EXCEPT !.owner = new_authority.v,
                                               !.delegate = None,
                                               !.delegated_amount = 0],
                                  info.data)))
       ELSE Fail(ac, "InvalidInstruction")

\* a TransferChecked that does not look at the decimals
process_transfer_checked_gate_skipped(ac, source_key, mint_key, destination_key, authority, is_signer, sw, dw, amount, decimals, sfz, dfz) ==
    process_transfer(ac, source_key, destination_key, authority, is_signer, sw, dw,
                     amount, sfz, dfz)

\* TransferChecked: the decimals-checked gate on the supplied mint, then Transfer
process_transfer_checked(ac, source_key, mint_key, destination_key, authority, is_signer, sw, dw, amount, decimals, sfz, dfz) ==
    LET um == Mint_unpack(ac[mint_key].data)
    IN IF um.err # "Ok" THEN Fail(ac, um.err)
       ELSE IF um.v.decimals # decimals THEN Fail(ac, "MintMismatch")
       ELSE process_transfer(ac, source_key, destination_key, authority, is_signer,
                             sw, dw, amount, sfz, dfz)

---------------------------------------------------------------------------
(* The minimal processor (src/program): records of mint, owner, amount and *)
(* is_initialized in buffers of its own length                             *)

MinimalAccountLEN == 165

minimal_Account_pack_into_slice(account, dst) ==
    [len |-> MinimalAccountLEN,
     mint |-> account.mint,
     owner |-> account.owner,
     amount |-> account.amount,
     is_initialized |-> BoolByte(account.is_initialized)]

\* Pack::unpack: the length, the decoding, then IsInitialized
minimal_Account_unpack(src) ==
    IF src.len # MinimalAccountLEN THEN [err |-> "InvalidAccountData"]
    ELSE IF src.is_initialized \notin {0, 1} THEN [err |-> "InvalidAccountData"]
    ELSE IF src.is_initialized = 0 THEN [err |-> "UninitializedAccount"]
    ELSE [err |-> "Ok",
          v |-> [mint |-> src.mint, owner |-> src.owner, amount |-> src.amount,
                 is_initialized |-> TRUE]]

\* Pack::unpack_unchecked: the length, then the decoding
minimal_Account_unpack_unchecked(src) ==
    IF src.len # MinimalAccountLEN THEN [err |-> "InvalidAccountData"]
    ELSE IF src.is_initialized \notin {0, 1} THEN [err |-> "InvalidAccountData"]
    ELSE [err |-> "Ok",
          v |-> [mint |-> src.mint, owner |-> src.owner, amount |-> src.amount,
                 is_initialized |-> (src.is_initialized = 1)]]

\* Pack::unpack of the minimal Mint (mint_authority, supply, decimals,
\* is_initialized in a buffer of 82 bytes)
minimal_Mint_unpack(src) ==
    IF src.len # MintLEN THEN [err |-> "InvalidAccountData"]
    ELSE IF src.is_initialized \notin {0, 1} THEN [err |-> "InvalidAccountData"]
    ELSE IF src.is_initialized = 0 THEN [err |-> "UninitializedAccount"]
    ELSE [err |-> "Ok",
          v |-> [mint_authority |-> src.mint_authority, supply |-> src.supply,
                 decimals |-> src.decimals, is_initialized |-> TRUE]]

minimal_process_initialize_account(program_id, ac, new_account_key, mint_key, owner_key, rent_sysvar) ==
    LET new_account_info == ac[new_account_key]
        mint_info == ac[mint_key]
        new_account_info_data_len == new_account_info.data.len
        ua == minimal_Account_unpack_unchecked(new_account_info.data)
    IN IF Rent_from_account_info(rent_sysvar) # "Ok"
         THEN Fail(ac, Rent_from_account_info(rent_sysvar))
       ELSE IF ua.err # "Ok" THEN Fail(ac, ua.err)
       ELSE IF ua.v.is_initialized THEN Fail(ac, "AlreadyInitialized")
       ELSE IF ~is_exempt(new_account_info.lamports, new_account_info_data_len)
         THEN Fail(ac, "NotRentExempt")
       ELSE IF mint_info.owner # program_id THEN Fail(ac, "IncorrectProgramId")
       ELSE IF minimal_Mint_unpack(mint_info.data).err # "Ok" THEN Fail(ac, "InvalidMint")
       ELSE Done(Store(ac, new_account_key,
                       minimal_Account_pack_into_slice(
                           [ua.v EXCEPT !.mint = mint_key,
                                        !.owner = owner_key,
                                        !.amount = 0,
                                        !.is_initialized = TRUE],
                           new_account_info.data)))

minimal_process_transfer(ac, source_key, destination_key, authority, is_signer, amount) ==
    LET source_account_info == ac[source_key]
        destination_account_info == ac[destination_key]
        us == minimal_Account_unpack(source_account_info.data)
        ud == minimal_Account_unpack(destination_account_info.data)
        s == checked_sub(us.v.amount, amount)
        d == checked_add(ud.v.amount, amount)
    IN IF us.err # "Ok" THEN Fail(ac, us.err)
       ELSE IF ud.err # "Ok" THEN Fail(ac, ud.err)
       ELSE IF ~us.v.is_initialized \/ ~ud.v.is_initialized THEN Fail(ac, "NotInitialized")
       ELSE IF us.v.amount < amount THEN Fail(ac, "InsufficientFunds")
       ELSE IF us.v.mint # ud.v.mint THEN Fail(ac, "MintMismatch")
       ELSE IF us.v.owner # authority THEN Fail(ac, "InvalidOwner")
       ELSE IF ~is_signer THEN Fail(ac, "MissingRequiredSignature")
       ELSE IF source_key = destination_key THEN Done(ac)
       ELSE IF ~s.some THEN Fail(ac, "Overflow")
       ELSE IF ~d.some THEN Fail(ac, "Overflow")
       ELSE Done(Store(Store(ac, source_key,
                             minimal_Account_pack_into_slice(
                                 [us.v EXCEPT !.amount = s.v], source_account_info.data)),
                       destination_key,
                       minimal_Account_pack_into_slice(
                           [ud.v EXCEPT !.amount = d.v], destination_account_info.data)))

---------------------------------------------------------------------------
(* The accounts of the model and the inputs of the instructions *)

\* token account buffers and mint buffers the host has allocated
TokenAccounts == {"A1", "A2"}

MintAccounts == {"M1", NATIVE}

Accounts == TokenAccounts \cup MintAccounts

\* keys of owners, authorities and delegates
Keys == {"W1", "W2"}

\* the key InitializeAccount and InitializeMint are given as owner / mint authority
Owners == {"W1"}

\* what callers pass where a token account is expected, and where a mint is:
\* the right kind of account, or one of the other kind
TokenArgs == TokenAccounts \cup {"M1"}

MintArgs == MintAccounts \cup {"A1"}

RentArgs == {RENT, "W1"}

Amounts == 0..U64_MAX

Decimals == {6}

FreezeKeys == {None, Some("W2")}

NoArg == "-"

\* A call that deviates from the instruction's contract (an account of the
\* wrong kind or the wrong mint, a read-only account, a wrong sysvar, a record
\* decoded as frozen) is made one deviation at a time, with otherwise plain inputs.
\* aok, bok: the two accounts are of the kind the position expects;
\* ro: which writable account is passed read-only (0: none); fzok: no frozen record
Shape(aok, bok, ro, fzok, plain) ==
    LET n == (IF aok THEN 0 ELSE 1) + (IF bok THEN 0 ELSE 1)
             + (IF ro = 0 THEN 0 ELSE 1) + (IF fzok THEN 0 ELSE 1)
    IN n = 0 \/ (n = 1 /\ plain)

\* m is the mint the token account a names (any mint while a holds no record)
MintOf(a, m) ==
    (a \in TokenAccounts /\ acct[a].data.is_initialized = 1) => acct[a].data.mint = m

\* the accounts whose owner approves delegates
Delegators == {"A1"}

InitializeMintInputs ==
    {i \in [a : MintArgs, rs : RentArgs, dec : Decimals, ma : Owners, fa : FreezeKeys] :
        Shape(i.a \in MintAccounts, i.rs = RENT, 0, TRUE, i.fa = None)}

InitializeAccountInputs ==
    {i \in [a : TokenArgs, m : MintArgs, o : Owners, rs : RentArgs] :
        Shape(i.a \in TokenAccounts, i.m \in MintAccounts, IF i.rs = RENT THEN 0 ELSE 1,
              TRUE, TRUE)}

TransferInputs ==
    {i \in [a : TokenArgs, d : TokenArgs, au : Keys, sg : BOOLEAN, ro : 0..2,
            amt : Amounts, sfz : BOOLEAN, dfz : BOOLEAN] :
        /\ ~(i.sfz /\ i.dfz)
        /\ Shape(i.a \in TokenAccounts, i.d \in TokenAccounts, i.ro, ~i.sfz /\ ~i.dfz,
                 i.au = "W1" /\ i.sg /\ i.amt = 1)}

MintToInputs ==
    {i \in [m : MintArgs, a : TokenArgs, au : Keys, sg : BOOLEAN, ro : 0..2, amt : Amounts] :
        Shape(i.m \in MintAccounts, i.a \in TokenAccounts, i.ro, TRUE,
              i.au = "W1" /\ i.sg /\ i.amt = 1)}

BurnInputs ==
    {i \in [a : TokenArgs, m : MintArgs, au : Keys, sg : BOOLEAN, ro : 0..2,
            amt : Amounts, fz : BOOLEAN] :
        Shape(i.a \in TokenAccounts, i.m \in MintAccounts, i.ro, ~i.fz,
              i.au = "W1" /\ i.sg /\ i.amt = 1)}

ApproveInputs ==
    {i \in [a : Delegators \cup {"M1"}, d : Keys, o : Keys, sg : BOOLEAN, ro : 0..1,
            amt : Amounts, fz : BOOLEAN] :
        Shape(i.a \in TokenAccounts, TRUE, i.ro, ~i.fz,
              i.d = "W2" /\ i.o = "W1" /\ i.sg /\ i.amt = 1)}

CloseAccountInputs ==
    {i \in [a : TokenArgs, d : TokenAccounts, au : Keys, sg : BOOLEAN] :
        Shape(i.a \in TokenAccounts, TRUE, 0, TRUE, i.au = "W1" /\ i.sg)}

FreezeAccountInputs ==
    {i \in [a : TokenArgs, m : MintArgs, au : Keys, sg : BOOLEAN, ro : 0..1, fz : BOOLEAN] :
        Shape(i.a \in TokenAccounts, i.m \in MintAccounts, i.ro, ~i.fz, i.au = "W2" /\ i.sg)}

ThawAccountInputs ==
    {i \in [a : TokenArgs, m : MintArgs, au : Keys, sg : BOOLEAN, ro : 0..1, fz : BOOLEAN] :
        Shape(i.a \in TokenAccounts, i.m \in MintAccounts, i.ro, i.fz, i.au = "W2" /\ i.sg)}

AuthorityTypes == {"MintTokens", "FreezeAccount", "AccountOwner", "CloseAccount"}

RevokeInputs ==
    {i \in [a : Delegators \cup {"M1"}, o : Keys, sg : BOOLEAN, ro : 0..1, fz : BOOLEAN] :
        Shape(i.a \in TokenAccounts, TRUE, i.ro, ~i.fz, i.o = "W1" /\ i.sg)}

\* the Transfer calls, each with a mint and the decimals the caller expects
\* (6 is M1's, 9 the native mint's)
TransferCheckedInputs ==
    {i \in [a : TokenArgs, d : TokenArgs, au : Keys, sg : BOOLEAN, ro : 0..2,
            amt : Amounts, sfz : BOOLEAN, dfz : BOOLEAN, m : MintAccounts, dec : {6, 9}] :
        [f \in DOMAIN i \ {"m", "dec"} |-> i[f]] \in TransferInputs}

SetAuthorityInputs ==
    {i \in [a : {"M1", "A1"}, au : Keys, sg : BOOLEAN, ro : 0..1, ty : AuthorityTypes,
            na : {None, Some("W1"), Some("W2")}] :
        Shape(TRUE, TRUE, i.ro, TRUE, i.sg)}

---------------------------------------------------------------------------
(* History of a run: what the properties of sequences are stated over.     *)
(* A specification keeps the parts of it (h) that its properties read:     *)
(*   "call"       the last instruction, its inputs and its result code     *)
(*   "subject"    the last instruction's name, account and result code     *)
(*   "accounts"   the same, and the second account of the instruction       *)
(*   "authority"  the same as "subject", and the key that authorized the   *)
(*                instruction, whether it signed, and what a SetAuthority   *)
(*                asked for                                                 *)
(*   "allowance"  the delegate and amount of the last successful Approve   *)
(*                and what that delegate has moved out since               *)
(*   "frozen"     the accounts frozen and not thawed since                 *)
(* and otherwise only whether the last instruction succeeded.              *)

Log(h, op, res, i) ==
    IF "call" \in h THEN [op |-> op, res |-> res, i |-> i]
    ELSE IF "subject" \in h THEN [op |-> op, res |-> res, i |-> [a |-> i.a]]
    ELSE IF "accounts" \in h
      THEN [op |-> op, res |-> res,
            i |-> [a |-> i.a, d |-> IF "d" \in DOMAIN i THEN i.d ELSE NoArg]]
    ELSE IF "authority" \in h
      THEN [op |-> op, res |-> res,
            i |-> [f \in DOMAIN i \cap
                          ({"a", "o", "au", "sg", "ty", "na"}
                             \cup IF op = "SetAuthority" THEN {"ro"} ELSE {}) |-> i[f]]]
    ELSE [op |-> NoArg, res |-> IF res = "Ok" THEN "Ok" ELSE "Err", i |-> <<>>]

NoHistory == [dlg |-> NoArg, cap |-> 0, moved |-> 0, frozen |-> {}]

Track(h, op, res, i) ==
    IF res # "Ok" THEN hist
    ELSE IF "allowance" \in h /\ op = "Approve"
      THEN [hist EXCEPT !.dlg = i.d, !.cap = i.amt, !.moved = 0]
    ELSE IF "allowance" \in h /\ op = "Transfer" /\ i.a \in Delegators
            /\ i.au = hist.dlg /\ i.a # i.d
      THEN [hist EXCEPT !.moved = IF @ + i.amt > U64_MAX THEN U64_MAX + 1 ELSE @ + i.amt]
    ELSE IF "frozen" \in h /\ op = "FreezeAccount"
      THEN [hist EXCEPT !.frozen = @ \cup {i.a}]
    ELSE IF "frozen" \in h /\ op = "ThawAccount"
      THEN [hist EXCEPT !.frozen = @ \ {i.a}]
    ELSE hist

---------------------------------------------------------------------------
(* Initial states *)

NativeMintData ==
    Mint_pack_into_slice([mint_authority |-> Some("W1"), supply |-> 0, decimals |-> 9,
                          is_initialized |-> TRUE, freeze_authority |-> None],
                         ZeroMintData)

\* zeroed, program-owned buffers holding tl (token accounts) and ml (the mint)
\* lamports; the native mint exists
Allocated(tl, ml) ==
    [k \in Accounts |->
       IF k \in TokenAccounts
         THEN [lamports |-> tl, owner |-> TOKEN, data |-> ZeroAccountData]
       ELSE IF k = NATIVE
         THEN [lamports |-> minimum_balance(MintLEN), owner |-> TOKEN,
               data |-> NativeMintData]
       ELSE [lamports |-> ml, owner |-> TOKEN, data |-> ZeroMintData]]

\* The host has allocated the buffers; no instruction has run.
Init ==
    /\ \E ml \in {0, minimum_balance(MintLEN)} : acct = Allocated(0, ml)
    /\ last = Log({}, "Init", "Ok", <<>>)
    /\ hist = NoHistory

\* A fresh ledger: mint M1 and the token accounts A1, A2 of it, just initialized
Fresh(freeze_authority) ==
    LET m == process_initialize_mint(
                 Allocated(minimum_balance(AccountLEN), minimum_balance(MintLEN)),
                 "M1", RENT, 6, "W1", freeze_authority).acct
        a == process_initialize_account(m, "A1", "M1", "W1", RENT).acct
    IN process_initialize_account(a, "A2", "M1", "W1", RENT).acct

InitLedger ==
    /\ acct = Fresh(Some("W2"))
    /\ last = Log({}, "Init", "Ok", <<>>)
    /\ hist = NoHistory

---------------------------------------------------------------------------
(* Actions: one per instruction.  The accounts become what the handler    *)
(* leaves (r.acct); the history records the call.                          *)

\* the host credits lamports to an account from outside the program
Deposit(h) ==
    \E k \in TokenAccounts :
      /\ acct[k].lamports < MaxLamports
      /\ acct' = [acct EXCEPT ![k].lamports = @ + 1]
      /\ last' = Log(h, "Deposit", "Ok", [a |-> k])
      /\ hist' = hist

InitializeMint(h) ==
    \E i \in InitializeMintInputs :
      LET r == process_initialize_mint(acct, i.a, i.rs, i.dec, i.ma, i.fa)
      IN /\ acct' = r.acct
         /\ last' = Log(h, "InitializeMint", r.res, i)
         /\ hist' = hist

InitializeAccount(h) ==
    \E i \in InitializeAccountInputs :
      LET r == process_initialize_account(acct, i.a, i.m, i.o, i.rs)
      IN /\ acct' = r.acct
         /\ last' = Log(h, "InitializeAccount", r.res, i)
         /\ hist' = hist

Transfer(h) ==
    \E i \in TransferInputs :
      LET r == process_transfer(acct, i.a, i.d, i.au, i.sg, i.ro # 1, i.ro # 2, i.amt,
                                i.sfz, i.dfz)
      IN /\ acct' = r.acct
         /\ last' = Log(h, "Transfer", r.res, i)
         /\ hist' = Track(h, "Transfer", r.res, i)

MintTo(h) ==
    \E i \in MintToInputs :
      LET r == process_mint_to(acct, i.m, i.a, i.au, i.sg, i.ro # 1, i.ro # 2, i.amt)
      IN /\ MintOf(i.a, i.m) \/ (i.ro = 0 /\ i.au = "W1" /\ i.sg /\ i.amt = 1)
         /\ acct' = r.acct
         /\ last' = Log(h, "MintTo", r.res, i)
         /\ hist' = hist

Burn(h) ==
    \E i \in BurnInputs :
      LET r == process_burn(acct, i.a, i.m, i.au, i.sg, i.ro # 1, i.ro # 2, i.amt, i.fz)
      IN /\ MintOf(i.a, i.m) \/ (i.ro = 0 /\ ~i.fz /\ i.au = "W1" /\ i.sg /\ i.amt = 1)
         /\ acct' = r.acct
         /\ last' = Log(h, "Burn", r.res, i)
         /\ hist' = hist

SyncNative(h) ==
    \E a \in TokenArgs :
      LET r == process_sync_native(acct, a)
      IN /\ acct' = r.acct
         /\ last' = Log(h, "SyncNative", r.res, [a |-> a])
         /\ hist' = hist

Approve(h) ==
    \E i \in ApproveInputs :
      LET r == process_approve(acct, i.a, i.d, i.o, i.sg, i.ro # 1, i.amt, i.fz)
      IN /\ acct' = r.acct
         /\ last' = Log(h, "Approve", r.res, i)
         /\ hist' = Track(h, "Approve", r.res, i)

CloseAccount(h) ==
    \E i \in CloseAccountInputs :
      LET r == process_close_account(acct, i.a, i.d, i.au, i.sg)
      IN /\ acct' = r.acct
         /\ last' = Log(h, "CloseAccount", r.res, i)
         /\ hist' = hist

FreezeAccount(h) ==
    \E i \in FreezeAccountInputs :
      LET r == process_freeze_account(acct, i.a, i.m, i.au, i.sg, i.ro # 1, i.fz)
      IN /\ MintOf(i.a, i.m) \/ (i.ro = 0 /\ ~i.fz /\ i.au = "W2" /\ i.sg)
         /\ acct' = r.acct
         /\ last' = Log(h, "FreezeAccount", r.res, i)
         /\ hist' = Track(h, "FreezeAccount", r.res, i)

ThawAccount(h) ==
    \E i \in ThawAccountInputs :
      LET r == process_thaw_account(acct, i.a, i.m, i.au, i.sg, i.ro # 1, i.fz)
      IN /\ MintOf(i.a, i.m) \/ (i.ro = 0 /\ i.fz /\ i.au = "W2" /\ i.sg)
         /\ acct' = r.acct
         /\ last' = Log(h, "ThawAccount", r.res, i)
         /\ hist' = Track(h, "ThawAccount", r.res, i)

Revoke(h) ==
    \E i \in RevokeInputs :
      LET r == process_revoke(acct, i.a, i.o, i.sg, i.ro # 1, i.fz)
      IN /\ acct' = r.acct
         /\ last' = Log(h, "Revoke", r.res, i)
         /\ hist' = hist

TransferChecked(h) ==
    \E i \in TransferCheckedInputs :
      LET r == process_transfer_checked(acct, i.a, i.m, i.d, i.au, i.sg, i.ro # 1,
                                        i.ro # 2, i.amt, i.dec, i.sfz, i.dfz)
      IN /\ acct' = r.acct
         /\ last' = Log(h, "TransferChecked", r.res, i)
         /\ hist' = Track(h, "TransferChecked", r.res, i)

SetAuthority(h, types) ==
    \E i \in SetAuthorityInputs :
      LET r == process_set_authority(acct, i.a, i.au, i.sg, i.ro # 1, i.ty, i.na)
      IN /\ i.ty \in types
         /\ acct' = r.acct
         /\ last' = Log(h, "SetAuthority", r.res, i)
         /\ hist' = hist

---------------------------------------------------------------------------
(* Specifications *)

\* the ten instructions Processor::process dispatches, on any accounts, and the
\* host's deposits
Next ==
    \/ Deposit({})
    \/ InitializeMint({})
    \/ InitializeAccount({})
    \/ Transfer({})
    \/ MintTo({})
    \/ Burn({})
    \/ SyncNative({})
    \/ Approve({})
    \/ CloseAccount({})
    \/ FreezeAccount({})
    \/ ThawAccount({})

Spec == Init /\ [][Next]_vars

\* the three balance operations on a fresh ledger
NextLedger ==
    \/ Transfer({"call"})
    \/ MintTo({"call"})
    \/ Burn({"call"})

SpecLedger == InitLedger /\ [][NextLedger]_vars

\* the balance operations, delegation and closing on a fresh ledger
NextDelegate ==
    \/ Transfer({"call"})
    \/ MintTo({"call"})
    \/ Burn({"call"})
    \/ Approve({"call"})
    \/ CloseAccount({"call"})

SpecDelegate == InitLedger /\ [][NextDelegate]_vars

\* the delegate's allowance under the balance operations and freezing
NextAllowance ==
    \/ Transfer({"allowance"})
    \/ MintTo({"allowance"})
    \/ Burn({"allowance"})
    \/ Approve({"allowance"})
    \/ FreezeAccount({"allowance"})
    \/ ThawAccount({"allowance"})

SpecAllowance == InitLedger /\ [][NextAllowance]_vars

\* a fresh ledger after a token has been minted to each account
Funded ==
    LET a == process_mint_to(Fresh(Some("W2")), "M1", "A1", "W1", TRUE, TRUE, TRUE, 1).acct
    IN process_mint_to(a, "M1", "A2", "W1", TRUE, TRUE, TRUE, 1).acct

InitFunded ==
    /\ acct = Funded
    /\ last = Log({}, "Init", "Ok", <<>>)
    /\ hist = NoHistory

\* freezing and thawing among the instructions a frozen account rejects
NextFreeze ==
    \/ FreezeAccount({"accounts", "frozen"})
    \/ ThawAccount({"accounts", "frozen"})
    \/ Transfer({"accounts", "frozen"})
    \/ Burn({"accounts", "frozen"})
    \/ Approve({"accounts", "frozen"})
    \/ Revoke({"accounts", "frozen"})

SpecFreeze == InitFunded /\ [][NextFreeze]_vars

\* a fresh ledger whose mint has a freeze authority, or has none
InitFreezeAuthority ==
    /\ \E fa \in FreezeKeys : acct = Fresh(fa)
    /\ last = Log({}, "Init", "Ok", <<>>)
    /\ hist = NoHistory

\* freezing and thawing while the freeze authority changes
NextFreezeAuthority ==
    \/ FreezeAccount({"call", "frozen"})
    \/ ThawAccount({"call", "frozen"})
    \/ SetAuthority({"call", "frozen"}, {"FreezeAccount"})

SpecFreezeAuthority == InitFreezeAuthority /\ [][NextFreezeAuthority]_vars

\* minting while the mint authority changes
NextAuthority ==
    \/ SetAuthority({"call"}, {"MintTokens"})
    \/ MintTo({"call"})
    \/ Burn({"call"})
    \/ InitializeMint({"call"})

SpecAuthority == InitLedger /\ [][NextAuthority]_vars

\* creating mints and token accounts in buffers the host has allocated and funds
NextInit ==
    \/ Deposit({"call"})
    \/ InitializeMint({"call"})
    \/ InitializeAccount({"call"})

SpecInit == Init /\ [][NextInit]_vars

\* the mint M1 exists; the token account buffers are allocated, funded and empty
InitMinted ==
    /\ acct = process_initialize_mint(
                  Allocated(minimum_balance(AccountLEN), minimum_balance(MintLEN)),
                  "M1", RENT, 6, "W1", None).acct
    /\ last = Log({}, "Init", "Ok", <<>>)
    /\ hist = NoHistory

\* the life of a token account, from an allocated buffer to its closing
NextClose ==
    \/ Deposit({"call"})
    \/ InitializeAccount({"call"})
    \/ MintTo({"call"})
    \/ CloseAccount({"call"})

SpecClose == InitMinted /\ [][NextClose]_vars

\* every instruction on token accounts, while accounts are being closed
NextClosed ==
    \/ CloseAccount({"accounts"})
    \/ InitializeAccount({"accounts"})
    \/ Transfer({"accounts"})
    \/ MintTo({"accounts"})
    \/ Burn({"accounts"})
    \/ Approve({"accounts"})
    \/ FreezeAccount({"accounts"})
    \/ ThawAccount({"accounts"})
    \/ SyncNative({"accounts"})

SpecClosed == InitLedger /\ [][NextClosed]_vars

\* delegating and revoking on funded accounts
NextRevoke ==
    \/ Approve({"call"})
    \/ Revoke({"call"})
    \/ Transfer({"call"})

SpecRevoke == InitFunded /\ [][NextRevoke]_vars

\* Two ledgers: a fresh one after a token has been minted to A1 and the mint
\* authority has given minting up (the supply is fixed), and one whose mint W1
\* still controls, with the single token account A2.
InitOwner ==
    /\ acct \in
         {process_set_authority(
              process_mint_to(Fresh(Some("W2")), "M1", "A1", "W1", TRUE, TRUE, TRUE, 1).acct,
              "M1", "W1", TRUE, TRUE, "MintTokens", None).acct,
          process_initialize_account(
              process_initialize_mint(
                  Allocated(minimum_balance(AccountLEN), minimum_balance(MintLEN)),
                  "M1", RENT, 6, "W1", None).acct,
              "A2", "M1", "W1", RENT).acct}
    /\ last = Log({}, "Init", "Ok", <<>>)
    /\ hist = NoHistory

\* the owner's and the mint authority's operations while both keys change
NextOwner ==
    \/ SetAuthority({"authority"}, {"AccountOwner", "MintTokens"})
    \/ Transfer({"authority"})
    \/ Burn({"authority"})
    \/ Approve({"authority"})
    \/ CloseAccount({"authority"})
    \/ MintTo({"authority"})

SpecOwner == InitOwner /\ [][NextOwner]_vars

\* transfers with and without the decimals check
NextChecked ==
    \/ TransferChecked({"call"})
    \/ Transfer({"call"})

SpecChecked == InitFunded /\ [][NextChecked]_vars

\* accounts of M1, whose freeze authority is W2, and of the native mint are
\* created, frozen and thawed
SpecNativeFreeze ==
    /\ acct = process_initialize_mint(
                  Allocated(minimum_balance(AccountLEN), minimum_balance(MintLEN)),
                  "M1", RENT, 6, "W1", Some("W2")).acct
    /\ last = Log({}, "Init", "Ok", <<>>)
    /\ hist = NoHistory
    /\ [][\/ InitializeAccount({"call", "frozen"})
          \/ FreezeAccount({"call", "frozen"})
          \/ ThawAccount({"call", "frozen"})]_vars

\* wrapped lamports: deposits from outside, syncs, and transfers between accounts
NextNative ==
    \/ Deposit({"subject"})
    \/ InitializeAccount({"subject"})
    \/ SyncNative({"subject"})
    \/ Transfer({"subject"})
    \/ CloseAccount({"subject"})

SpecNative == InitMinted /\ [][NextNative]_vars

\* The minimal processor's ledger: the token accounts A1 and A2 of the mint M1,
\* owned by W1, holding x and y of a supply of x + y
MinimalLedger(x, y) ==
    [k \in TokenArgs |->
       [lamports |-> 1, owner |-> TOKEN,
        data |-> IF k \in TokenAccounts
                   THEN minimal_Account_pack_into_slice(
                            [mint |-> "M1", owner |-> "W1",
                             amount |-> IF k = "A1" THEN x ELSE y,
                             is_initialized |-> TRUE], <<>>)
                   ELSE [len |-> MintLEN, mint_authority |-> "W1", supply |-> x + y,
                         decimals |-> 6, is_initialized |-> 1]]]

InitMinimal ==
    /\ \E x, y \in Amounts : x + y <= U64_MAX /\ acct = MinimalLedger(x, y)
    /\ last = Log({}, "Init", "Ok", <<>>)
    /\ hist = NoHistory

MinimalTransferInputs ==
    {i \in [a : TokenArgs, d : TokenArgs, au : Keys, sg : BOOLEAN, amt : Amounts] :
        Shape(i.a \in TokenAccounts, i.d \in TokenAccounts, 0, TRUE,
              i.au = "W1" /\ i.sg /\ i.amt = 1)}

MinimalTransfer(h) ==
    \E i \in MinimalTransferInputs :
      LET r == minimal_process_transfer(acct, i.a, i.d, i.au, i.sg, i.amt)
      IN /\ acct' = r.acct
         /\ last' = Log(h, "Transfer", r.res, i)
         /\ hist' = hist

MinimalInitializeAccount(h) ==
    \E i \in InitializeAccountInputs :
      LET r == minimal_process_initialize_account(MINIMAL, acct, i.a, i.m, i.o, i.rs)
      IN /\ acct' = r.acct
         /\ last' = Log(h, "minimal InitializeAccount", r.res, i)
         /\ hist' = hist

NextMinimal == MinimalTransfer({"call"})

SpecMinimal == InitMinimal /\ [][NextMinimal]_vars

\* Buffers allocated for the token program (the mint M1 initialized or not) or
\* for the minimal program (its mint M1 initialized or not, and a mint buffer
\* that another program owns), the token account buffers holding tl lamports
InitOnce ==
    /\ \E tl \in {0, minimum_balance(AccountLEN)}, minted \in BOOLEAN :
         acct \in
           {IF minted
              THEN process_initialize_mint(Allocated(tl, minimum_balance(MintLEN)),
                                           "M1", RENT, 6, "W1", None).acct
              ELSE Allocated(tl, minimum_balance(MintLEN)),
            \* the same mint record in a buffer that another program owns
            [process_initialize_mint(Allocated(tl, minimum_balance(MintLEN)),
                                     "M1", RENT, 6, "W1", None).acct
               EXCEPT !["M1"].owner = SYSTEM],
            [k \in Accounts |->
               IF k \in TokenAccounts
                 THEN [lamports |-> tl, owner |-> MINIMAL,
                       data |-> minimal_Account_pack_into_slice(
                                    [mint |-> ZeroKey, owner |-> ZeroKey, amount |-> 0,
                                     is_initialized |-> FALSE], <<>>)]
               ELSE [lamports |-> minimum_balance(MintLEN),
                     owner |-> IF k = "M1" THEN MINIMAL ELSE SYSTEM,
                     data |-> [len |-> MintLEN, mint_authority |-> "W1", supply |-> 0,
                               decimals |-> 6,
                               is_initialized |-> BoolByte(minted /\ k = "M1")]]]}
    /\ last = Log({}, "Init", "Ok", <<>>)
    /\ hist = NoHistory

\* InitializeAccount of either program, on either program's buffers
NextOnce ==
    \/ InitializeAccount({"call"})
    \/ MinimalInitializeAccount({"call"})

SpecOnce == InitOnce /\ [][NextOnce]_vars

---------------------------------------------------------------------------
(* What the properties read off the accounts *)

\* the record a token account's buffer decodes to
AccountOf(ac, a) == Account_unpack_unchecked(ac[a].data).v

\* the record a mint's buffer decodes to
MintRecord(ac, m) == Mint_unpack_unchecked(ac[m].data).v

Initialized(ac, a) == ac[a].owner = TOKEN /\ AccountOf(ac, a).is_initialized

\* the initialized token accounts whose mint field is m
AccountsOf(m) == {a \in TokenAccounts : Initialized(acct, a) /\ AccountOf(acct, a).mint = m}

RECURSIVE SumAmount(_)
SumAmount(S) ==
    IF S = {} THEN 0
    ELSE LET a == CHOOSE x \in S : TRUE
         IN AccountOf(acct, a).amount + SumAmount(S \ {a})

\* the supply of m equals the sum of the amounts of its accounts
Conserved(m) ==
    MintRecord(acct, m).is_initialized => MintRecord(acct, m).supply = SumAmount(AccountsOf(m))

---------------------------------------------------------------------------
(* Properties *)

\* C1: on a fresh ledger of non-native accounts, in every state reached by
\* Transfer, MintTo and Burn instructions, every initialized mint's supply equals
\* the sum of amount over the initialized accounts whose mint field is that mint.
C1_Conservation == \A m \in MintAccounts : Conserved(m)

\* tokens have been minted and part of them transferred to the other account
C1_Witness ==
    /\ last.op = "Transfer" /\ last.res = "Ok"
    /\ MintRecord(acct, "M1").supply = 2
    /\ AccountOf(acct, "A1").amount = 1
    /\ AccountOf(acct, "A2").amount = 1

\* C2 as stated: after any sequence of instructions of any kind, every initialized
\* mint, the native mint included, has supply equal to the sum of amount over the
\* initialized accounts referencing it.
C2_EveryMintConserved == Conserved("M1") /\ Conserved(NATIVE)

\* C2, amended: after any sequence of instructions of any kind, every initialized
\* mint other than the native mint has supply equal to the sum of amount over the
\* initialized accounts referencing it.
C2_NonNativeConserved == \A m \in MintAccounts \ {NATIVE} : Conserved(m)

\* tokens of M1 are held while a native account holds lamports as its amount
C2_Witness ==
    /\ MintRecord(acct, "M1").supply = 2
    /\ AccountsOf("M1") = {"A1"}
    /\ AccountOf(acct, "A1").amount = 2
    /\ AccountsOf(NATIVE) = {"A2"}
    /\ AccountOf(acct, "A2").amount = 1

\* C3: an instruction that returns an error leaves the data, lamports and storage
\* owner of every account as they were before the call.
C3_FailureChangesNothing == [][last'.res # "Ok" => acct' = acct]_vars

\* an instruction has failed on a ledger that holds tokens and a delegate
C3_Witness ==
    /\ last.res = "Err"
    /\ Initialized(acct, "A1") /\ AccountOf(acct, "A1").amount = 1
    /\ AccountOf(acct, "A1").delegate = Some("W2")
    /\ Initialized(acct, "A2") /\ AccountOf(acct, "A2").amount = 1

\* every check of a Transfer between two distinct accounts other than the one
\* on the source's amount passes
TransferChecksPass(i) ==
    /\ i.a \in TokenAccounts /\ i.d \in TokenAccounts /\ i.a # i.d
    /\ i.ro = 0 /\ ~i.sfz /\ ~i.dfz
    /\ Initialized(acct, i.a) /\ Initialized(acct, i.d)
    /\ AccountOf(acct, i.a).mint = AccountOf(acct, i.d).mint
    /\ i.sg
    /\ IF AccountOf(acct, i.a).delegate = Some(i.au)
         THEN AccountOf(acct, i.a).delegated_amount >= i.amt
         ELSE AccountOf(acct, i.a).owner = i.au

\* every check of a Burn other than the one on the account's amount passes
BurnChecksPass(i) ==
    /\ i.a \in TokenAccounts /\ i.m \in MintAccounts
    /\ i.ro = 0 /\ ~i.fz
    /\ Initialized(acct, i.a) /\ MintRecord(acct, i.m).is_initialized
    /\ AccountOf(acct, i.a).mint = i.m
    /\ i.sg /\ AccountOf(acct, i.a).owner = i.au

\* C4: a Transfer between two distinct accounts, or a Burn, of more than the
\* source account holds, every other check passing, returns InsufficientFunds and
\* changes no account; no successful Transfer or Burn leaves an amount below zero.
C4_NoNegativeBalance ==
    [][LET i == last'.i
       IN /\ (last'.op = "Transfer" /\ TransferChecksPass(i)
                /\ i.amt > AccountOf(acct, i.a).amount)
             => (last'.res = "InsufficientFunds" /\ acct' = acct)
          /\ (last'.op = "Burn" /\ BurnChecksPass(i)
                /\ i.amt > AccountOf(acct, i.a).amount)
             => (last'.res = "InsufficientFunds" /\ acct' = acct)
          /\ (last'.op \in {"Transfer", "Burn"} /\ last'.res = "Ok")
             => \A a \in TokenAccounts : AccountOf(acct', a).amount >= 0]_vars

\* a Transfer of 2 out of an account that holds 1 has been rejected
C4_Witness ==
    /\ last.op = "Transfer" /\ last.res = "InsufficientFunds"
    /\ last.i.a = "A1" /\ last.i.d = "A2" /\ last.i.amt = 2
    /\ last.i.au = "W1" /\ last.i.sg /\ last.i.ro = 0
    /\ AccountOf(acct, "A1").amount = 1

\* the step takes tokens from the initialized account a, or erases its record
Debited(a) ==
    /\ Initialized(acct, a)
    /\ \/ ~Initialized(acct', a)
       \/ AccountOf(acct', a).amount < AccountOf(acct, a).amount

\* the step is a Transfer, Burn or CloseAccount on a signed by a's owner, or a
\* Transfer signed by a's delegate within the delegated amount
DebitAuthorized(a) ==
    LET i == last'.i
        s == AccountOf(acct, a)
    IN /\ last'.op \in {"Transfer", "Burn", "CloseAccount"}
       /\ i.a = a
       /\ i.sg
       /\ \/ i.au = s.owner
          \/ /\ last'.op = "Transfer"
             /\ s.delegate = Some(i.au)
             /\ i.amt <= s.delegated_amount

\* C5: whenever an instruction decreases or erases an initialized account's
\* amount, it is a Transfer, Burn or CloseAccount whose authority signed and is
\* the account's owner, or a Transfer whose authority signed and is the account's
\* delegate with the amount within delegated_amount.
C5_DebitsAuthorized == [][\A a \in TokenAccounts : Debited(a) => DebitAuthorized(a)]_vars

\* the delegate, who is not the owner, has moved a token out of A1
C5_Witness ==
    /\ last.op = "Transfer" /\ last.res = "Ok"
    /\ last.i.a = "A1" /\ last.i.d = "A2" /\ last.i.au = "W2" /\ last.i.amt = 1
    /\ AccountOf(acct, "A1").owner = "W1"
    /\ AccountOf(acct, "A2").amount = 1

\* C6 as stated: from a successful Approve naming delegate d with amount n to the
\* next successful Approve on the account, the Transfers authorized by d move at
\* most n out of the account.
C6_AllowanceCap == hist.dlg # NoArg => hist.moved <= hist.cap

\* C6, amended: the same for a delegate d other than the account's owner (a
\* Transfer the owner signs is not charged to an allowance the owner has used up).
C6_DelegateAllowanceCap ==
    \A a \in Delegators :
      (hist.dlg # NoArg /\ hist.dlg # AccountOf(acct, a).owner) => hist.moved <= hist.cap

\* the delegate has moved its whole allowance of 2; the account, holding a token
\* again, has no delegate
C6_Witness ==
    /\ hist.dlg = "W2" /\ hist.cap = 2 /\ hist.moved = 2
    /\ AccountOf(acct, "A1").delegate = None
    /\ AccountOf(acct, "A1").amount = 1

\* C7: a successful Transfer of x between two distinct accounts authorized by the
\* source's delegate decreases delegated_amount by x and leaves delegate None
\* exactly when the result is 0; a successful Transfer authorized by an owner who
\* is not the delegate leaves delegate and delegated_amount unchanged.
C7_DelegateDecay ==
    [][(last'.op = "Transfer" /\ last'.res = "Ok") =>
         LET i == last'.i
             s == AccountOf(acct, i.a)
             t == AccountOf(acct', i.a)
         IN /\ (i.a # i.d /\ s.delegate = Some(i.au)) =>
                  /\ t.delegated_amount = s.delegated_amount - i.amt
                  /\ t.delegate = IF t.delegated_amount = 0 THEN None ELSE s.delegate
            /\ (s.delegate # Some(i.au)) =>
                  /\ t.delegate = s.delegate
                  /\ t.delegated_amount = s.delegated_amount]_vars

\* of an allowance of 2 the delegate has used 1 and is still the delegate
C7_Witness ==
    /\ last.op = "Transfer" /\ last.res = "Ok"
    /\ last.i.a = "A1" /\ last.i.d = "A2" /\ last.i.au = "W2" /\ last.i.amt = 1
    /\ AccountOf(acct, "A1").delegate = Some("W2")
    /\ AccountOf(acct, "A1").delegated_amount = 1

\* C8 as stated: from a successful FreezeAccount on an account to the next
\* successful ThawAccount on it, every Transfer out of it, Burn, Approve and Revoke
\* on it fails and changes nothing.
C8_FreezeGating ==
    [][(last'.op \in {"Transfer", "Burn", "Approve", "Revoke"} /\ last'.i.a \in hist.frozen)
         => (last'.res # "Ok" /\ acct' = acct)]_vars

\* the mint m is initialized and has no mint authority
MintingDisabled(ac, m) ==
    MintRecord(ac, m).is_initialized /\ MintRecord(ac, m).mint_authority = None

\* the checks of process_mint_to that precede the one on the mint authority pass
MintToReachesAuthority(i) ==
    /\ acct[i.m].owner = TOKEN /\ acct[i.a].owner = TOKEN
    /\ i.ro = 0

\* C9 as stated: once a mint's mint_authority is None it stays None, a
\* SetAuthority(MintTokens) on it fails, every MintTo on it fails with InvalidMint,
\* and its supply does not increase.
C9_DisabledMintingAsStated ==
    [][\A m \in MintAccounts : MintingDisabled(acct, m) =>
         /\ MintingDisabled(acct', m)
         /\ MintRecord(acct', m).supply <= MintRecord(acct, m).supply
         /\ (last'.op = "SetAuthority" /\ last'.i.a = m) => last'.res # "Ok"
         /\ (last'.op = "MintTo" /\ last'.i.m = m) => last'.res = "InvalidMint"]_vars

\* C9, amended: once a mint's mint_authority is None it stays None, a
\* SetAuthority(MintTokens) on it fails, every MintTo on it fails (with InvalidMint
\* when both accounts are program-owned and writable, the checks that come first),
\* and its supply does not increase.
C9_DisabledMintingIsFinal ==
    [][\A m \in MintAccounts : MintingDisabled(acct, m) =>
         /\ MintingDisabled(acct', m)
         /\ MintRecord(acct', m).supply <= MintRecord(acct, m).supply
         /\ (last'.op = "SetAuthority" /\ last'.i.a = m) => last'.res # "Ok"
         /\ (last'.op = "MintTo" /\ last'.i.m = m) =>
              /\ last'.res # "Ok"
              /\ MintToReachesAuthority(last'.i) => last'.res = "InvalidMint"]_vars

\* a MintTo signed by the former authority is rejected after a token was minted
\* and minting disabled
C9_Witness ==
    /\ MintingDisabled(acct, "M1")
    /\ MintRecord(acct, "M1").supply = 1
    /\ last.op = "MintTo" /\ last.res = "InvalidMint"
    /\ last.i.m = "M1" /\ last.i.au = "W1" /\ last.i.sg

\* the mint m is initialized and has no freeze authority
NoFreezeAuthority(ac, m) ==
    MintRecord(ac, m).is_initialized /\ MintRecord(ac, m).freeze_authority = None

\* the checks of process_freeze_account (frozen = FALSE) or process_thaw_account
\* (frozen = TRUE) that precede the one on the freeze authority pass
FreezeReachesAuthority(i, frozen) ==
    /\ i.a \in TokenAccounts /\ Initialized(acct, i.a)
    /\ i.ro = 0 /\ i.fz = frozen
    /\ AccountOf(acct, i.a).is_native = None
    /\ AccountOf(acct, i.a).mint = i.m

\* every FreezeAccount and ThawAccount naming m fails, with MintCannotFreeze when
\* the earlier checks pass
FreezeRejected(m) ==
    (last'.op \in {"FreezeAccount", "ThawAccount"} /\ last'.i.m = m) =>
      /\ last'.res # "Ok"
      /\ FreezeReachesAuthority(last'.i, last'.op = "ThawAccount")
           => last'.res = "MintCannotFreeze"

\* C10 as stated: while a mint's freeze_authority is None every FreezeAccount and
\* ThawAccount naming it fails (MintCannotFreeze when all earlier checks pass),
\* and in no state is an account of such a mint frozen.
C10_NoFreezeAsStated ==
    [][\A m \in MintAccounts :
         /\ NoFreezeAuthority(acct, m) => FreezeRejected(m)
         /\ NoFreezeAuthority(acct', m) =>
              \A a \in hist'.frozen : AccountOf(acct', a).mint # m]_vars

\* C10, amended: while a mint's freeze_authority is None every FreezeAccount and
\* ThawAccount naming it fails (MintCannotFreeze when all earlier checks pass),
\* and no account of it becomes frozen or thawed; an account frozen before the
\* authority was given up stays frozen.
C10_NoFreezeWhileNone ==
    [][\A m \in MintAccounts : NoFreezeAuthority(acct, m) =>
         /\ FreezeRejected(m)
         /\ \A a \in TokenAccounts :
              AccountOf(acct, a).mint = m => (a \in hist'.frozen <=> a \in hist.frozen)]_vars

\* A1 was frozen, the freeze authority given up, and a ThawAccount rejected
C10_Witness ==
    /\ NoFreezeAuthority(acct, "M1")
    /\ "A1" \in hist.frozen
    /\ last.op = "ThawAccount" /\ last.res = "MintCannotFreeze" /\ last.i.a = "A1"

---------------------------------------------------------------------------
(* C11: a mint is initialized exactly once *)

\* the call i of InitializeMint names an initialized mint
OnInitializedMint(ac, i) ==
    i.a \in MintAccounts /\ MintRecord(ac, i.a).is_initialized

\* C11 as stated: InitializeMint on a mint that is already initialized fails with
\* AlreadyInitialized for any arguments, at any point of any sequence, and leaves
\* the mint's mint_authority, supply, decimals and freeze_authority unchanged.
C11_InitializedOnceAsStated ==
    [][(last'.op = "InitializeMint" /\ OnInitializedMint(acct, last'.i)) =>
         /\ last'.res = "AlreadyInitialized"
         /\ MintRecord(acct', last'.i.a) = MintRecord(acct, last'.i.a)]_vars

\* C11, amended: InitializeMint on a mint that is already initialized fails for
\* any arguments, at any point of any sequence - with AlreadyInitialized when the
\* sysvar account it is given is the rent sysvar, which is decoded first - and
\* leaves every account, so the mint's mint_authority, supply, decimals and
\* freeze_authority, unchanged.
C11_InitializedOnce ==
    [][(last'.op = "InitializeMint" /\ OnInitializedMint(acct, last'.i)) =>
         /\ last'.res # "Ok"
         /\ last'.i.rs = RENT => last'.res = "AlreadyInitialized"
         /\ acct' = acct]_vars

\* after a token was minted, an InitializeMint naming another freeze authority
\* is rejected and the supply is still 1
C11_Witness ==
    /\ last.op = "InitializeMint" /\ last.res = "AlreadyInitialized"
    /\ last.i.a = "M1" /\ last.i.fa = None
    /\ MintRecord(acct, "M1").supply = 1
    /\ MintRecord(acct, "M1").freeze_authority = Some("W2")

---------------------------------------------------------------------------
(* C12: what InitializeMint writes *)

\* C12: InitializeMint on an uninitialized, rent-exempt mint record (a
\* program-owned mint buffer, the rent sysvar given) sets mint_authority to Some
\* of the given key, supply to 0, decimals to the given value, is_initialized and
\* freeze_authority to the payload's value; below the rent-exempt minimum it fails
\* with NotRentExempt and leaves the record uninitialized.
C12_InitializeMintEffect ==
    [][(/\ last'.op = "InitializeMint"
        /\ last'.i.a \in MintAccounts /\ last'.i.rs = RENT
        /\ ~MintRecord(acct, last'.i.a).is_initialized)
       => IF is_exempt(acct[last'.i.a].lamports, MintLEN)
            THEN /\ last'.res = "Ok"
                 /\ MintRecord(acct', last'.i.a) =
                      [mint_authority |-> Some(last'.i.ma), supply |-> 0,
                       decimals |-> last'.i.dec, is_initialized |-> TRUE,
                       freeze_authority |-> last'.i.fa]
            ELSE /\ last'.res = "NotRentExempt"
                 /\ ~MintRecord(acct', last'.i.a).is_initialized
                 /\ acct' = acct]_vars

\* a mint was just initialized with a freeze authority
C12_Witness ==
    /\ last.op = "InitializeMint" /\ last.res = "Ok" /\ last.i.a = "M1"
    /\ last.i.fa = Some("W2")
    /\ MintRecord(acct, "M1").freeze_authority = Some("W2")
    /\ MintRecord(acct, "M1").mint_authority = Some("W1")

\* an InitializeMint was refused for want of lamports
C12_WitnessNotRentExempt ==
    /\ last.op = "InitializeMint" /\ last.res = "NotRentExempt" /\ last.i.a = "M1"
    /\ ~MintRecord(acct, "M1").is_initialized

---------------------------------------------------------------------------
(* C13: an account that holds tokens cannot be closed *)

\* C13: CloseAccount on an initialized non-native account whose amount is not 0
\* (the destination being another account) fails with InvalidState and leaves the
\* lamports of source and destination, the source's data and the source's storage
\* owner - every account - unchanged.
C13_CloseWithBalanceFails ==
    [][(/\ last'.op = "CloseAccount"
        /\ last'.i.a \in TokenAccounts /\ last'.i.a # last'.i.d
        /\ Initialized(acct, last'.i.a)
        /\ ~AccountOf(acct, last'.i.a).is_native.some
        /\ AccountOf(acct, last'.i.a).amount # 0)
       => /\ last'.res = "InvalidState"
          /\ acct' = acct]_vars

\* the signing owner was refused the closing of an account holding a token
C13_Witness ==
    /\ last.op = "CloseAccount" /\ last.res = "InvalidState"
    /\ last.i.a = "A1" /\ last.i.d = "A2" /\ last.i.au = "W1" /\ last.i.sg
    /\ Initialized(acct, "A1") /\ AccountOf(acct, "A1").amount = 1
    /\ acct["A1"].lamports = minimum_balance(AccountLEN)

---------------------------------------------------------------------------
(* C14: what a closing moves *)

\* C14: a successful CloseAccount has source and destination different and the
\* signing owner as authority; it adds the source's entire lamport balance to the
\* destination, sets the source's lamports to 0, zeroes the source's data and
\* reassigns the source's storage owner to the system owner, so the sum of the
\* two lamport balances is the same before and after; CloseAccount with source
\* equal to destination fails and leaves the lamports unchanged.
C14_CloseMovesLamports ==
    [][last'.op = "CloseAccount" =>
         LET a == last'.i.a
             d == last'.i.d
         IN /\ last'.res = "Ok" =>
                 /\ a # d
                 /\ AccountOf(acct, a).owner = last'.i.au /\ last'.i.sg
                 /\ acct'[d].lamports = acct[d].lamports + acct[a].lamports
                 /\ acct'[a].lamports = 0
                 /\ acct'[a].data = ZeroAccountData
                 /\ acct'[a].owner = SYSTEM
                 /\ acct'[a].lamports + acct'[d].lamports
                      = acct[a].lamports + acct[d].lamports
                 /\ acct'[d].data = acct[d].data /\ acct'[d].owner = acct[d].owner
                 /\ \A k \in Accounts \ {a, d} : acct'[k] = acct[k]
            /\ a = d => (last'.res # "Ok" /\ acct' = acct)]_vars

\* an account was closed into another that held lamports of its own
C14_Witness ==
    /\ last.op = "CloseAccount" /\ last.res = "Ok"
    /\ last.i.a = "A1" /\ last.i.d = "A2"
    /\ acct["A1"].lamports = 0 /\ acct["A1"].owner = SYSTEM
    /\ acct["A1"].data = ZeroAccountData
    /\ acct["A2"].lamports = 2 * minimum_balance(AccountLEN)
    /\ Initialized(acct, "A2")

---------------------------------------------------------------------------
(* C15: Closed is terminal *)

\* C15: an account comes to be owned by the system owner only through a
\* successful CloseAccount on it, and from then on it is never an initialized
\* token account again, no instruction writes its data, and every
\* InitializeAccount, Transfer, MintTo, Burn, Approve, FreezeAccount, ThawAccount,
\* SyncNative or CloseAccount that names it as the token account to read or
\* write fails.
C15_ClosedIsTerminal ==
    [][\A a \in TokenAccounts :
         /\ (acct[a].owner # SYSTEM /\ acct'[a].owner = SYSTEM) =>
               (last'.op = "CloseAccount" /\ last'.res = "Ok" /\ last'.i.a = a)
         /\ acct[a].owner = SYSTEM =>
               /\ acct'[a].owner = SYSTEM
               /\ acct'[a].data = acct[a].data
               /\ ~AccountOf(acct', a).is_initialized
               /\ (last'.i.a = a \/ (last'.op = "Transfer" /\ last'.i.d = a)) =>
                     last'.res # "Ok"]_vars

\* an InitializeAccount on a closed account that has lamports again fails
C15_Witness ==
    /\ last.op = "InitializeAccount" /\ last.res = "IncorrectProgramId"
    /\ last.i.a = "A1"
    /\ acct["A1"].owner = SYSTEM /\ acct["A1"].data = ZeroAccountData
    /\ acct["A1"].lamports >= minimum_balance(AccountLEN)

---------------------------------------------------------------------------
(* C16: what MintTo changes *)

\* the checks of process_mint_to that precede its arithmetic pass
MintToChecksPass(i) ==
    /\ MintToReachesAuthority(i)
    /\ i.m \in MintAccounts /\ i.a \in TokenAccounts
    /\ MintRecord(acct, i.m).is_initialized
    /\ MintRecord(acct, i.m).mint_authority = Some(i.au) /\ i.sg
    /\ Initialized(acct, i.a) /\ AccountOf(acct, i.a).mint = i.m

\* C16: a MintTo succeeds only when its checks pass, and then increases the
\* mint's supply and the destination's amount by exactly the amount, changing no
\* other field of the two records and no other account; when either addition
\* would exceed the u64 maximum it fails with Overflow and changes nothing.
C16_MintToEffect ==
    [][last'.op = "MintTo" =>
         LET i == last'.i
         IN /\ last'.res = "Ok" => MintToChecksPass(i)
            /\ MintToChecksPass(i) =>
                 IF \/ MintRecord(acct, i.m).supply + i.amt > U64_MAX
                    \/ AccountOf(acct, i.a).amount + i.amt > U64_MAX
                   THEN last'.res = "Overflow" /\ acct' = acct
                   ELSE /\ last'.res = "Ok"
                        /\ acct' = [acct EXCEPT ![i.m].data.supply = @ + i.amt,
                                                ![i.a].data.amount = @ + i.amt]]_vars

\* a MintTo has just brought supply and balance to the maximum
C16_Witness ==
    /\ last.op = "MintTo" /\ last.res = "Ok" /\ last.i.amt = 1
    /\ last.i.m = "M1" /\ last.i.a = "A1"
    /\ MintRecord(acct, "M1").supply = U64_MAX
    /\ AccountOf(acct, "A1").amount = U64_MAX

\* a MintTo by the signing authority was refused because the supply is at the
\* maximum
C16_WitnessOverflow ==
    /\ last.op = "MintTo" /\ last.res = "Overflow"
    /\ last.i.m = "M1" /\ last.i.au = "W1" /\ last.i.sg
    /\ MintRecord(acct, "M1").supply = U64_MAX

---------------------------------------------------------------------------
(* C17: only the signing mint authority mints *)

\* C17: a MintTo on a mint with a stored mint authority whose authority account
\* is another key fails even when that account signs, and one whose authority is
\* the stored key but does not sign fails too - with InvalidOwner, the destination
\* being an account of the program; neither changes the supply or the
\* destination's amount; so a supply only ever increases by a MintTo that the
\* stored mint authority signs.
C17_OnlyAuthorityMints ==
    [][\A m \in MintAccounts :
         LET mint == MintRecord(acct, m)
             i == last'.i
         IN (mint.is_initialized /\ mint.mint_authority.some) =>
              /\ (last'.op = "MintTo" /\ i.m = m /\ i.au # mint.mint_authority.v) =>
                     /\ last'.res # "Ok" /\ acct' = acct
                     /\ acct[i.a].owner = TOKEN => last'.res = "InvalidOwner"
              /\ (last'.op = "MintTo" /\ i.m = m /\ ~i.sg) =>
                     /\ last'.res # "Ok" /\ acct' = acct
                     /\ acct[i.a].owner = TOKEN => last'.res = "InvalidOwner"
              /\ MintRecord(acct', m).supply > mint.supply =>
                     /\ last'.op = "MintTo" /\ last'.res = "Ok" /\ i.m = m
                     /\ i.au = mint.mint_authority.v /\ i.sg]_vars

\* the former authority signs a MintTo after the authority has passed to another
\* key, and is refused
C17_Witness ==
    /\ last.op = "MintTo" /\ last.res = "InvalidOwner"
    /\ last.i.m = "M1" /\ last.i.au = "W1" /\ last.i.sg /\ last.i.ro = 0
    /\ MintRecord(acct, "M1").mint_authority = Some("W2")

---------------------------------------------------------------------------
(* C18: what Burn changes, and who may burn *)

\* C18: a Burn succeeds only signed by the account's owner, and then decreases
\* the account's amount and the mint's supply by exactly the amount, leaving
\* delegate, delegated_amount, owner and every other record unchanged; a Burn
\* whose authority is the account's delegate and not its owner fails and changes
\* nothing, with InvalidOwner when the checks before the one on the authority
\* pass.
C18_BurnEffect ==
    [][last'.op = "Burn" =>
         LET i == last'.i
         IN /\ last'.res = "Ok" =>
                 /\ BurnChecksPass(i)
                 /\ AccountOf(acct, i.a).amount >= i.amt
                 /\ acct' = [acct EXCEPT ![i.a].data.amount = @ - i.amt,
                                         ![i.m].data.supply = @ - i.amt]
            /\ (/\ i.a \in TokenAccounts /\ Initialized(acct, i.a)
                /\ AccountOf(acct, i.a).delegate = Some(i.au)
                /\ AccountOf(acct, i.a).owner # i.au) =>
                 /\ last'.res # "Ok" /\ acct' = acct
                 /\ (/\ i.m \in MintAccounts /\ i.ro = 0 /\ ~i.fz
                     /\ AccountOf(acct, i.a).mint = i.m) => last'.res = "InvalidOwner"]_vars

\* the owner has burnt one of the two tokens of an account that has a delegate
C18_Witness ==
    /\ last.op = "Burn" /\ last.res = "Ok" /\ last.i.amt = 1 /\ last.i.a = "A1"
    /\ AccountOf(acct, "A1").amount = 1 /\ MintRecord(acct, "M1").supply = 1
    /\ AccountOf(acct, "A1").delegate = Some("W2")
    /\ AccountOf(acct, "A1").delegated_amount = 2

\* the delegate of an account that holds its whole allowance signs a Burn and is
\* refused
C18_WitnessDelegate ==
    /\ last.op = "Burn" /\ last.res = "InvalidOwner" /\ last.i.a = "A1"
    /\ last.i.au = "W2" /\ last.i.sg /\ last.i.ro = 0 /\ ~last.i.fz
    /\ AccountOf(acct, "A1").delegate = Some("W2")
    /\ AccountOf(acct, "A1").delegated_amount = 1
    /\ AccountOf(acct, "A1").amount = 1

---------------------------------------------------------------------------
(* C19: self-transfer *)

\* the checks of a Transfer from an account to itself that precede the one on
\* the authority pass
SelfTransferReachesAuthority(i) ==
    /\ i.a = i.d /\ i.a \in TokenAccounts
    /\ i.ro = 0 /\ ~i.sfz /\ ~i.dfz
    /\ Initialized(acct, i.a)

\* C19 in the token_mvp processor: a Transfer from an account to itself signed by
\* the owner (who is not also the account's delegate) succeeds for every amount,
\* larger than the balance included, and changes nothing; signed by the delegate
\* within the allowance it succeeds, changes nothing and so leaves
\* delegated_amount as it was.
C19_SelfTransferMvp ==
    [][(last'.op = "Transfer" /\ SelfTransferReachesAuthority(last'.i)) =>
         LET i == last'.i
             source_account == AccountOf(acct, i.a)
         IN /\ (/\ source_account.owner = i.au /\ i.sg
                /\ source_account.delegate # Some(i.au)) =>
                  (last'.res = "Ok" /\ acct' = acct)
            /\ (/\ source_account.delegate = Some(i.au) /\ i.sg
                /\ i.amt <= source_account.delegated_amount) =>
                  (last'.res = "Ok" /\ acct' = acct)]_vars

\* the owner has sent an empty account more than it holds, to itself
C19_WitnessMvp ==
    /\ last.op = "Transfer" /\ last.res = "Ok"
    /\ last.i.a = "A1" /\ last.i.d = "A1" /\ last.i.au = "W1" /\ last.i.amt = 2
    /\ AccountOf(acct, "A1").amount = 0

\* the delegate has sent its whole allowance from the account to itself
C19_WitnessMvpDelegate ==
    /\ last.op = "Transfer" /\ last.res = "Ok"
    /\ last.i.a = "A1" /\ last.i.d = "A1" /\ last.i.au = "W2" /\ last.i.amt = 1
    /\ AccountOf(acct, "A1").delegate = Some("W2")
    /\ AccountOf(acct, "A1").delegated_amount = 1

\* C19 in the minimal processor: a Transfer from an account to itself signed by
\* the owner succeeds for every amount, larger than the balance included, and
\* changes nothing.
C19_SelfTransferMinimal ==
    [][(/\ last'.op = "Transfer" /\ last'.i.a = last'.i.d
        /\ last'.i.a \in TokenAccounts
        /\ acct[last'.i.a].data.owner = last'.i.au /\ last'.i.sg)
       => (last'.res = "Ok" /\ acct' = acct)]_vars

\* in the minimal processor the owner's Transfer of more than the balance from
\* an account to itself is refused
C19_MinimalRefusal ==
    /\ last.op = "Transfer" /\ last.res = "InsufficientFunds"
    /\ last.i.a = "A1" /\ last.i.d = "A1" /\ last.i.au = "W1" /\ last.i.sg
    /\ last.i.amt = 2 /\ acct["A1"].data.amount = 1

---------------------------------------------------------------------------
(* C20: SyncNative *)

\* C20: SyncNative on an initialized account with is_native = Some(reserve) - whose
\* lamports are never below the reserve - sets amount to lamports minus reserve
\* when that is at least the stored amount, and fails with InvalidState changing
\* nothing when it is lower, so no SyncNative decreases an amount; on an account
\* with is_native = None it fails with NonNativeNotSupported; a SyncNative
\* repeated with unchanged lamports succeeds and changes nothing.
C20_SyncNative ==
    [][(/\ last'.op = "SyncNative" /\ last'.i.a \in TokenAccounts
        /\ Initialized(acct, last'.i.a)) =>
         LET a == last'.i.a
             account == AccountOf(acct, a)
             again == process_sync_native(acct', a)
         IN IF ~account.is_native.some
              THEN last'.res = "NonNativeNotSupported" /\ acct' = acct
            ELSE /\ acct[a].lamports >= account.is_native.v
                 /\ IF acct[a].lamports - account.is_native.v >= account.amount
                      THEN /\ last'.res = "Ok"
                           /\ acct' = [acct EXCEPT ![a].data.amount =
                                          acct[a].lamports - account.is_native.v]
                           /\ again.res = "Ok" /\ again.acct = acct'
                      ELSE last'.res = "InvalidState" /\ acct' = acct
                 /\ AccountOf(acct', a).amount >= account.amount]_vars

\* a SyncNative has raised the amount of a native account to a deposited lamport
C20_Witness ==
    /\ last.op = "SyncNative" /\ last.res = "Ok" /\ last.i.a = "A1"
    /\ AccountOf(acct, "A1").is_native = Some(minimum_balance(AccountLEN))
    /\ acct["A1"].lamports = minimum_balance(AccountLEN) + 1
    /\ AccountOf(acct, "A1").amount = 1

\* a SyncNative was refused on a native account that holds a token received by
\* Transfer and no lamports above its reserve
C20_WitnessInvalidState ==
    /\ last.op = "SyncNative" /\ last.res = "InvalidState" /\ last.i.a = "A2"
    /\ AccountOf(acct, "A2").is_native.some
    /\ acct["A2"].lamports = minimum_balance(AccountLEN)
    /\ AccountOf(acct, "A2").amount = 1

\* a SyncNative was refused on an account of another mint
C20_WitnessNonNative ==
    /\ last.op = "SyncNative" /\ last.res = "NonNativeNotSupported"
    /\ Initialized(acct, last.i.a) /\ AccountOf(acct, last.i.a).mint = "M1"

---------------------------------------------------------------------------
(* C21: a native account's amount and its lamports *)

\* C21, the part about instructions: immediately after a successful
\* InitializeAccount or SyncNative on a native account, its amount equals its
\* lamports minus the stored reserve.
C21_MirrorAfterSync ==
    [][(/\ last'.op \in {"InitializeAccount", "SyncNative"} /\ last'.res = "Ok"
        /\ AccountOf(acct', last'.i.a).is_native.some) =>
         AccountOf(acct', last'.i.a).amount =
             acct'[last'.i.a].lamports - AccountOf(acct', last'.i.a).is_native.v]_vars

\* C21 as stated, the part about states: in every reachable state the amount of
\* a native account does not exceed its lamports minus its reserve, and the
\* amounts of all native accounts do not sum to more than the lamports held
\* above their reserves.
C21_NativeMirror ==
    LET native(a) == Initialized(acct, a) /\ AccountOf(acct, a).is_native.some
        held(a) == IF native(a) THEN AccountOf(acct, a).amount ELSE 0
        above(a) == IF native(a)
                      THEN acct[a].lamports - AccountOf(acct, a).is_native.v ELSE 0
    IN /\ \A a \in TokenAccounts : held(a) <= above(a)
       /\ held("A1") + held("A2") <= above("A1") + above("A2")

\* two native accounts hold a token each while one lamport in all is held above
\* their reserves
C21_Unbacked ==
    /\ Initialized(acct, "A1") /\ AccountOf(acct, "A1").is_native.some
    /\ Initialized(acct, "A2") /\ AccountOf(acct, "A2").is_native.some
    /\ AccountOf(acct, "A1").amount = 1 /\ AccountOf(acct, "A2").amount = 1
    /\ acct["A1"].lamports = minimum_balance(AccountLEN) + 1
    /\ acct["A2"].lamports = minimum_balance(AccountLEN)

---------------------------------------------------------------------------
(* C22: the freeze / thaw state machine *)

\* C22 as stated: a FreezeAccount on an account frozen and not thawed since, and
\* a ThawAccount on an account that is not frozen, fail with InvalidState (the
\* account being an initialized, writable account of the program); a successful
\* FreezeAccount or ThawAccount changes no other field of the account or the mint.
C22_FreezeThawMachine ==
    [][(/\ last'.op \in {"FreezeAccount", "ThawAccount"}
        /\ last'.i.a \in TokenAccounts /\ last'.i.ro = 0
        /\ Initialized(acct, last'.i.a)) =>
         /\ (last'.op = "FreezeAccount" /\ last'.i.a \in hist.frozen) =>
                last'.res = "InvalidState"
         /\ (last'.op = "ThawAccount" /\ last'.i.a \notin hist.frozen) =>
                last'.res = "InvalidState"
         /\ acct' = acct]_vars

---------------------------------------------------------------------------
(* C23: Revoke *)

\* C23: a Revoke signed by the owner of an unfrozen account sets delegate to
\* None and delegated_amount to 0 and changes nothing else; a Revoke whose
\* authority is not the owner, or does not sign, fails and leaves the delegation
\* unchanged; and on an account without a delegate every Transfer signed by a key
\* other than the owner - the former delegate's - fails and changes nothing.
C23_Revoke ==
    [][(last'.i.a \in TokenAccounts /\ Initialized(acct, last'.i.a)) =>
         LET i == last'.i
             account == AccountOf(acct, i.a)
         IN /\ (last'.op = "Revoke" /\ account.owner = i.o /\ i.sg
                 /\ ~i.fz /\ i.ro = 0) =>
                  /\ last'.res = "Ok"
                  /\ AccountOf(acct', i.a) =
                       [account EXCEPT !.delegate = None, !.delegated_amount = 0]
                  /\ \A k \in Accounts \ {i.a} : acct'[k] = acct[k]
            /\ (last'.op = "Revoke" /\ (account.owner # i.o \/ ~i.sg)) =>
                  (last'.res # "Ok" /\ acct' = acct)
            /\ (last'.op = "Transfer" /\ account.delegate = None
                 /\ account.owner # i.au) =>
                  (last'.res # "Ok" /\ acct' = acct)]_vars

\* the owner has revoked the delegation to W2, whose key the buffer still holds
\* under a tag of None
C23_Witness ==
    /\ last.op = "Revoke" /\ last.res = "Ok" /\ last.i.a = "A1"
    /\ AccountOf(acct, "A1").delegate = None
    /\ AccountOf(acct, "A1").delegated_amount = 0
    /\ acct["A1"].data.delegate.body = "W2"
    /\ AccountOf(acct, "A1").amount = 1

\* the former delegate's Transfer is refused after the revocation
C23_WitnessRefused ==
    /\ last.op = "Transfer" /\ last.res = "InvalidOwner"
    /\ last.i.a = "A1" /\ last.i.au = "W2" /\ last.i.sg
    /\ AccountOf(acct, "A1").delegate = None
    /\ acct["A1"].data.delegate.body = "W2"

---------------------------------------------------------------------------
(* C24: SetAuthority *)

\* C24: SetAuthority(AccountOwner, Some(new)) signed by the account's owner, on
\* a writable account, sets owner to new, delegate to None and delegated_amount
\* to 0 and changes nothing else; on an account without a delegate a Transfer,
\* and on any account a Burn, an Approve or a CloseAccount, whose authority is
\* not the account's owner - the old owner's, once new differs from it - fails
\* and changes nothing; SetAuthority(MintTokens, Some(new)) signed by the mint
\* authority makes new the mint authority, and a MintTo to an account of the
\* mint succeeds only with the mint authority's signature.
C24_SetAuthority ==
    [][LET i == last'.i
       IN /\ (last'.op = "SetAuthority" /\ i.ty = "AccountOwner" /\ i.a = "A1"
               /\ Initialized(acct, "A1") /\ AccountOf(acct, "A1").owner = i.au
               /\ i.sg /\ i.ro = 0 /\ i.na # None) =>
                /\ last'.res = "Ok"
                /\ AccountOf(acct', "A1") =
                     [AccountOf(acct, "A1") EXCEPT !.owner = i.na.v,
                                                   !.delegate = None,
                                                   !.delegated_amount = 0]
                /\ \A k \in Accounts \ {"A1"} : acct'[k] = acct[k]
          /\ (last'.op \in {"Transfer", "Burn", "Approve", "CloseAccount"}
               /\ i.a \in TokenAccounts /\ Initialized(acct, i.a)
               /\ AccountOf(acct, i.a).owner #
                    (IF last'.op = "Approve" THEN i.o ELSE i.au)
               /\ (last'.op = "Transfer" => AccountOf(acct, i.a).delegate = None)) =>
                (last'.res # "Ok" /\ acct' = acct)
          /\ (last'.op = "SetAuthority" /\ i.ty = "MintTokens" /\ i.a = "M1"
               /\ MintRecord(acct, "M1").mint_authority = Some(i.au)
               /\ i.sg /\ i.ro = 0 /\ i.na # None) =>
                /\ last'.res = "Ok"
                /\ MintRecord(acct', "M1") =
                     [MintRecord(acct, "M1") EXCEPT !.mint_authority = i.na]
                /\ \A k \in Accounts \ {"M1"} : acct'[k] = acct[k]
          /\ (last'.op = "MintTo" /\ last'.res = "Ok") =>
                /\ MintRecord(acct, AccountOf(acct, i.a).mint).mint_authority = Some(i.au)
                /\ i.sg]_vars

\* W1 has handed the account A1, with its delegation to W2, over to W2
C24_Witness ==
    /\ last.op = "SetAuthority" /\ last.res = "Ok" /\ last.i.ty = "AccountOwner"
    /\ last.i.au = "W1" /\ last.i.na = Some("W2")
    /\ AccountOf(acct, "A1").owner = "W2"
    /\ AccountOf(acct, "A1").delegate = None
    /\ acct["A1"].data.delegate.body = "W2"
    /\ AccountOf(acct, "A1").amount = 1

\* the old owner's CloseAccount is refused on the account it has handed over
C24_WitnessOldOwner ==
    /\ last.op = "CloseAccount" /\ last.res = "InvalidOwner"
    /\ last.i.a = "A1" /\ last.i.au = "W1" /\ last.i.sg
    /\ AccountOf(acct, "A1").owner = "W2"
    /\ AccountOf(acct, "A1").amount = 0

\* the new mint authority W2 mints after W1 has handed the mint over
C24_WitnessMintTokens ==
    /\ last.op = "MintTo" /\ last.res = "Ok" /\ last.i.au = "W2"
    /\ MintRecord(acct, "M1").mint_authority = Some("W2")

---------------------------------------------------------------------------
(* C25: TransferChecked *)

C25_WitnessMismatch ==
    /\ last.op = "TransferChecked" /\ last.res = "MintMismatch"
    /\ last.i.a = "A1" /\ last.i.d = "A2" /\ last.i.m = "M1" /\ last.i.dec = 9
    /\ last.i.au = "W1" /\ last.i.sg /\ last.i.amt = 1 /\ last.i.ro = 0
    /\ ~last.i.sfz /\ ~last.i.dfz
    /\ AccountOf(acct, "A1").amount = 1

---------------------------------------------------------------------------
(* Instruction decoding (instruction.rs): a buffer is a sequence of bytes  *)

PUBKEY_BYTES == 32

\* rest.get(..8) as a little-endian u64, or InvalidInstruction
unpack_amount(rest) ==
    IF Len(rest) < 8 THEN [err |-> "InvalidInstruction"]
    ELSE [err |-> "Ok",
          v |-> rest[1] + 256 * (rest[2] + 256 * (rest[3] + 256 * (rest[4]
                  + 256 * (rest[5] + 256 * (rest[6] + 256 * (rest[7] + 256 * rest[8]))))))]

unpack_pubkey(input) ==
    IF Len(input) >= PUBKEY_BYTES
      THEN [err |-> "Ok", v |-> SubSeq(input, 1, PUBKEY_BYTES),
            rest |-> SubSeq(input, PUBKEY_BYTES + 1, Len(input))]
    ELSE [err |-> "InvalidInstruction"]

unpack_pubkey_option(input) ==
    IF input # <<>> /\ Head(input) = 0
      THEN [err |-> "Ok", v |-> None, rest |-> Tail(input)]
    ELSE IF input # <<>> /\ Head(input) = 1 /\ Len(Tail(input)) >= PUBKEY_BYTES
      THEN [err |-> "Ok", v |-> Some(SubSeq(Tail(input), 1, PUBKEY_BYTES)),
            rest |-> SubSeq(Tail(input), PUBKEY_BYTES + 1, Len(Tail(input)))]
    ELSE [err |-> "InvalidInstruction"]

AuthorityType_from_u8(value) ==
    IF value = 0 THEN [err |-> "Ok", v |-> "MintTokens"]
    ELSE IF value = 1 THEN [err |-> "Ok", v |-> "FreezeAccount"]
    ELSE IF value = 2 THEN [err |-> "Ok", v |-> "AccountOwner"]
    ELSE IF value = 3 THEN [err |-> "Ok", v |-> "CloseAccount"]
    ELSE [err |-> "InvalidInstruction"]

\* the arms of the match on the tag byte, in the order of the source
TagArms ==
    << [tag |-> 0, op |-> "InitializeMint"],
       [tag |-> 1, op |-> "InitializeAccount"],
       [tag |-> 2, op |-> "Approve"],
       [tag |-> 3, op |-> "Transfer"],
       [tag |-> 12, op |-> "TransferChecked"],
       [tag |-> 7, op |-> "MintTo"],
       [tag |-> 8, op |-> "Burn"],
       [tag |-> 9, op |-> "SyncNative"],
       [tag |-> 10, op |-> "CloseAccount"],
       [tag |-> 11, op |-> "FreezeAccount"],
       [tag |-> 12, op |-> "ThawAccount"],
       [tag |-> 5, op |-> "Revoke"],
       [tag |-> 6, op |-> "SetAuthority"] >>

\* the body of the arm for op, on the bytes after the tag
unpack_arm(op, rest) ==
    IF op = "InitializeMint"
      THEN IF rest = <<>> THEN [err |-> "InvalidInstruction"]
           ELSE LET mint_authority == unpack_pubkey(Tail(rest))
                IN IF mint_authority.err # "Ok" THEN [err |-> mint_authority.err]
                   ELSE LET freeze_authority == unpack_pubkey_option(mint_authority.rest)
                        IN IF freeze_authority.err # "Ok"
                             THEN [err |-> freeze_authority.err]
                           ELSE [err |-> "Ok",
                                 v |-> [op |-> op, decimals |-> Head(rest),
                                        mint_authority |-> mint_authority.v,
                                        freeze_authority |-> freeze_authority.v]]
    ELSE IF op \in {"Approve", "Transfer", "MintTo", "Burn"}
      THEN IF unpack_amount(rest).err # "Ok" THEN [err |-> unpack_amount(rest).err]
           ELSE [err |-> "Ok", v |-> [op |-> op, amount |-> unpack_amount(rest).v]]
    ELSE IF op = "TransferChecked"
      THEN IF unpack_amount(rest).err # "Ok" THEN [err |-> unpack_amount(rest).err]
           ELSE IF Len(rest) < 9 THEN [err |-> "InvalidInstruction"]
           ELSE [err |-> "Ok",
                 v |-> [op |-> op, amount |-> unpack_amount(rest).v,
                        decimals |-> rest[9]]]
    ELSE IF op = "SetAuthority"
      THEN IF rest = <<>> THEN [err |-> "InvalidInstruction"]
           ELSE LET authority_type == AuthorityType_from_u8(Head(rest))
                    new_authority == unpack_pubkey_option(Tail(rest))
                IN IF authority_type.err # "Ok" THEN [err |-> authority_type.err]
                   ELSE IF new_authority.err # "Ok" THEN [err |-> new_authority.err]
                   ELSE [err |-> "Ok",
                         v |-> [op |-> op, authority_type |-> authority_type.v,
                                new_authority |-> new_authority.v]]
    ELSE [err |-> "Ok", v |-> [op |-> op]]

\* TokenInstruction::unpack: the first arm whose pattern is the tag byte
TokenInstruction_unpack(input) ==
    IF input = <<>> THEN [err |-> "InvalidInstruction"]
    ELSE LET arms == {k \in 1..Len(TagArms) : TagArms[k].tag = Head(input)}
         IN IF arms = {} THEN [err |-> "InvalidInstruction"]
            ELSE unpack_arm(TagArms[CHOOSE k \in arms : \A j \in arms : k <= j].op,
                            Tail(input))

\* instruction buffers: no bytes at all, or a tag byte (255 and 4 are among
\* those no arm carries) before a payload of any of the instructions, whole or
\* cut short
InstructionData ==
    LET key(b) == [j \in 1..PUBKEY_BYTES |-> IF j = 1 THEN b ELSE 0]
        amount(n) == <<n, 0, 0, 0, 0, 0, 0, 0>>
        payloads == {<<>>, <<1, 0, 0, 0, 0, 0, 0>>, amount(0), amount(1),
                     amount(2) \o <<6>>, <<0, 1>> \o amount(0),
                     <<6>> \o key(7), <<6>> \o key(7) \o <<0>>,
                     <<6>> \o key(7) \o <<1>> \o key(8), <<6>> \o key(7) \o <<1>>,
                     <<2, 0>>, <<2, 1>> \o key(8), <<0, 1>> \o key(8), <<4, 0>>}
    IN {<<>>} \cup {<<tag>> \o p : tag \in (0..13) \cup {255}, p \in payloads}

\* the first step of Processor::process: the instruction data is decoded
Unpack ==
    \E input \in InstructionData :
      LET r == TokenInstruction_unpack(input)
      IN /\ acct' = acct
         /\ last' = [op |-> "unpack", res |-> r.err, i |-> [data |-> input],
                     v |-> IF r.err = "Ok" THEN r.v ELSE [op |-> NoArg]]
         /\ hist' = hist

SpecUnpack == Init /\ [][Unpack]_vars

---------------------------------------------------------------------------
(* C26: instruction tags *)

\* C26: instruction tags are unique: a buffer that decodes yields the operation
\* of every arm that carries its tag byte, each of the thirteen operations is
\* what some buffer decodes to, and a buffer whose tag no arm carries, or an
\* empty buffer, fails with InvalidInstruction.
C26_TagsUnique ==
    last.op = "unpack" =>
      LET input == last.i.data
          arms == {k \in 1..Len(TagArms) : input # <<>> /\ TagArms[k].tag = Head(input)}
      IN /\ \A k \in arms : last.res = "Ok" => last.v.op = TagArms[k].op
         /\ \A k \in 1..Len(TagArms) :
              \E data \in InstructionData :
                /\ TokenInstruction_unpack(data).err = "Ok"
                /\ TokenInstruction_unpack(data).v.op = TagArms[k].op
         /\ arms = {} => last.res = "InvalidInstruction"

\* a buffer with ThawAccount's tag 12 has been decoded as a TransferChecked
C26_Witness ==
    /\ last.op = "unpack" /\ last.res = "Ok"
    /\ Head(last.i.data) = 12
    /\ last.v = [op |-> "TransferChecked", amount |-> 2, decimals |-> 6]

\* C26, what holds instead: no buffer decodes to ThawAccount; with that arm
\* left out, the tags are unique and the other twelve operations are decoded
C26_ThawAccountUnreachable ==
    last.op = "unpack" =>
      LET input == last.i.data
          arms == {k \in 1..Len(TagArms) : input # <<>> /\ TagArms[k].tag = Head(input)
                                           /\ TagArms[k].op # "ThawAccount"}
      IN /\ last.v.op # "ThawAccount"
         /\ \A k \in arms : last.res = "Ok" => last.v.op = TagArms[k].op
         /\ \A k \in 1..Len(TagArms) :
              TagArms[k].op # "ThawAccount" =>
                \E data \in InstructionData :
                  /\ TokenInstruction_unpack(data).err = "Ok"
                  /\ TokenInstruction_unpack(data).v.op = TagArms[k].op
         /\ arms = {} => last.res = "InvalidInstruction"

---------------------------------------------------------------------------
(* C27: Approve *)

\* C27: an Approve succeeds only when the account's owner signs it, and then
\* it sets delegate to the given key and delegated_amount to the given amount,
\* whatever they were, and changes nothing else of the account and no other
\* account; it does succeed on a writable, unfrozen account; an Approve whose
\* authority is not the owner, or does not sign, fails and changes nothing, with
\* InvalidOwner when the account is writable and not frozen.
C27_Approve ==
    [][(last'.op = "Approve" /\ last'.i.a \in TokenAccounts
         /\ Initialized(acct, last'.i.a)) =>
         LET i == last'.i
             account == AccountOf(acct, i.a)
             authorized == account.owner = i.o /\ i.sg
         IN /\ last'.res = "Ok" =>
                 /\ authorized
                 /\ AccountOf(acct', i.a) =
                      [account EXCEPT !.delegate = Some(i.d),
                                      !.delegated_amount = i.amt]
                 /\ \A k \in Accounts \ {i.a} : acct'[k] = acct[k]
            /\ (authorized /\ ~i.fz /\ i.ro = 0) => last'.res = "Ok"
            /\ ~authorized =>
                 /\ last'.res # "Ok" /\ acct' = acct
                 /\ (~i.fz /\ i.ro = 0) => last'.res = "InvalidOwner"]_vars

\* the owner has approved W1 for 1 token on the account A1, whose token has
\* gone to A2
C27_Witness ==
    /\ last.op = "Approve" /\ last.res = "Ok"
    /\ last.i.a = "A1" /\ last.i.d = "W1" /\ last.i.amt = 1
    /\ AccountOf(acct, "A1").delegate = Some("W1")
    /\ AccountOf(acct, "A1").delegated_amount = 1
    /\ AccountOf(acct, "A1").amount = 0
    /\ AccountOf(acct, "A2").amount = 2

\* an Approve by a key that is not the owner has been refused
C27_WitnessInvalidOwner ==
    /\ last.op = "Approve" /\ last.res = "InvalidOwner"
    /\ last.i.a = "A1" /\ last.i.o = "W2" /\ last.i.sg
    /\ AccountOf(acct, "A1").owner = "W1"
    /\ AccountOf(acct, "A1").delegate = Some("W2")

---------------------------------------------------------------------------
(* C28: InitializeAccount with a mint that is not initialized *)

\* C28: an InitializeAccount of an uninitialized, rent-exempt account buffer of
\* the program, with the rent sysvar, naming the mint buffer M1 while it holds
\* no initialized mint, fails with InvalidMint and changes nothing, in the
\* token program and in the minimal program.
C28_UninitializedMint ==
    [][(/\ last'.op \in {"InitializeAccount", "minimal InitializeAccount"}
        /\ last'.i.a \in TokenAccounts /\ last'.i.m = "M1" /\ last'.i.rs = RENT
        /\ acct[last'.i.a].owner =
             (IF last'.op = "InitializeAccount" THEN TOKEN ELSE MINIMAL)
        /\ acct["M1"].owner = acct[last'.i.a].owner
        /\ acct["M1"].data.is_initialized = 0
        /\ acct[last'.i.a].data.is_initialized = 0
        /\ is_exempt(acct[last'.i.a].lamports, acct[last'.i.a].data.len)) =>
         (last'.res = "InvalidMint" /\ acct' = acct)]_vars

\* the token program has refused the uninitialized mint with the error of
\* Mint::unpack
C28_Witness ==
    /\ last.op = "InitializeAccount" /\ last.res = "UninitializedAccount"
    /\ last.i.a = "A1" /\ last.i.m = "M1" /\ last.i.rs = RENT
    /\ acct["A1"].owner = TOKEN /\ acct["M1"].owner = TOKEN
    /\ acct["M1"].data.is_initialized = 0
    /\ acct["A1"].data.is_initialized = 0
    /\ is_exempt(acct["A1"].lamports, acct["A1"].data.len)

\* C28, what holds instead: such a call fails and changes nothing, with
\* InvalidMint in the minimal program and UninitializedAccount in the token
\* program
C28_UninitializedMintRefused ==
    [][(/\ last'.op \in {"InitializeAccount", "minimal InitializeAccount"}
        /\ last'.i.a \in TokenAccounts /\ last'.i.m = "M1" /\ last'.i.rs = RENT
        /\ acct[last'.i.a].owner =
             (IF last'.op = "InitializeAccount" THEN TOKEN ELSE MINIMAL)
        /\ acct["M1"].owner = acct[last'.i.a].owner
        /\ acct["M1"].data.is_initialized = 0
        /\ acct[last'.i.a].data.is_initialized = 0
        /\ is_exempt(acct[last'.i.a].lamports, acct[last'.i.a].data.len)) =>
         /\ last'.res = (IF last'.op = "InitializeAccount"
                           THEN "UninitializedAccount" ELSE "InvalidMint")
         /\ acct' = acct]_vars

\* the minimal program has refused the uninitialized mint with InvalidMint
C28_WitnessMinimal ==
    /\ last.op = "minimal InitializeAccount" /\ last.res = "InvalidMint"
    /\ last.i.a = "A1" /\ last.i.m = "M1" /\ last.i.rs = RENT
    /\ acct["A1"].owner = MINIMAL /\ acct["M1"].owner = MINIMAL
    /\ acct["M1"].data.is_initialized = 0
    /\ acct["A1"].data.is_initialized = 0
    /\ is_exempt(acct["A1"].lamports, acct["A1"].data.len)

---------------------------------------------------------------------------
(* C29: an account is initialized at most once *)

C29_WitnessMinimal ==
    /\ last.op = "minimal InitializeAccount" /\ last.res = "AlreadyInitialized"
    /\ last.i.a = "A1"
    /\ acct["A1"].owner = MINIMAL
    /\ minimal_Account_unpack(acct["A1"].data).err = "Ok"
    /\ acct["A1"].data.mint = "M1"

\* an InitializeAccount on an initialized account that names no rent sysvar
\* has failed with another error
C29_WitnessOtherError ==
    /\ last.op = "InitializeAccount" /\ last.res = "InvalidArgument"
    /\ last.i.a = "A1" /\ acct["A1"].owner = TOKEN
    /\ acct["A1"].data.is_initialized = 1

---------------------------------------------------------------------------
(* C30: a delegate's Transfer beyond its allowance *)

\* C30 as stated: a Transfer between writable, unfrozen accounts of one mint,
\* signed by the source account's delegate, whose amount exceeds
\* delegated_amount, fails with InvalidOwner and changes nothing.
C30_OverAllowanceAsStated ==
    [][(/\ last'.op = "Transfer"
        /\ last'.i.a \in TokenAccounts /\ Initialized(acct, last'.i.a)
        /\ last'.i.d \in TokenAccounts /\ Initialized(acct, last'.i.d)
        /\ AccountOf(acct, last'.i.a).mint = AccountOf(acct, last'.i.d).mint
        /\ last'.i.ro = 0 /\ ~last'.i.sfz /\ ~last'.i.dfz
        /\ AccountOf(acct, last'.i.a).delegate = Some(last'.i.au) /\ last'.i.sg
        /\ last'.i.amt > AccountOf(acct, last'.i.a).delegated_amount) =>
         (last'.res = "InvalidOwner" /\ acct' = acct)]_vars

\* C30: a Transfer signed by the source account's delegate whose amount
\* exceeds delegated_amount fails and changes nothing; between writable,
\* unfrozen accounts of one mint it fails with InsufficientFunds.
C30_OverAllowance ==
    [][(/\ last'.op = "Transfer"
        /\ last'.i.a \in TokenAccounts /\ Initialized(acct, last'.i.a)
        /\ AccountOf(acct, last'.i.a).delegate = Some(last'.i.au) /\ last'.i.sg
        /\ last'.i.amt > AccountOf(acct, last'.i.a).delegated_amount) =>
         /\ last'.res # "Ok" /\ acct' = acct
         /\ (/\ last'.i.d \in TokenAccounts /\ Initialized(acct, last'.i.d)
             /\ AccountOf(acct, last'.i.a).mint = AccountOf(acct, last'.i.d).mint
             /\ last'.i.ro = 0 /\ ~last'.i.sfz /\ ~last'.i.dfz) =>
              last'.res = "InsufficientFunds"]_vars

\* the delegate W2, allowed 1 token of the 2 that A1 holds, has asked for both
C30_Witness ==
    /\ last.op = "Transfer" /\ last.res = "InsufficientFunds"
    /\ last.i.a = "A1" /\ last.i.d = "A2" /\ last.i.au = "W2" /\ last.i.sg
    /\ last.i.amt = 2 /\ last.i.ro = 0 /\ ~last.i.sfz /\ ~last.i.dfz
    /\ AccountOf(acct, "A1").delegate = Some("W2")
    /\ AccountOf(acct, "A1").delegated_amount = 1
    /\ AccountOf(acct, "A1").amount = 2

---------------------------------------------------------------------------
(* C31: the owner's signature *)

\* C31: a Transfer between two distinct, writable, unfrozen accounts of the same
\* mint, signed by the source account's owner, whose amount does not exceed the
\* source's amount and fits into the destination, succeeds whatever the
\* account's delegate and delegated_amount are.
C31_OwnerSuffices ==
    [][(/\ last'.op = "Transfer"
        /\ last'.i.a \in TokenAccounts /\ Initialized(acct, last'.i.a)
        /\ last'.i.d \in TokenAccounts /\ Initialized(acct, last'.i.d)
        /\ last'.i.a # last'.i.d
        /\ AccountOf(acct, last'.i.a).mint = AccountOf(acct, last'.i.d).mint
        /\ last'.i.ro = 0 /\ ~last'.i.sfz /\ ~last'.i.dfz
        /\ AccountOf(acct, last'.i.a).owner = last'.i.au /\ last'.i.sg
        /\ last'.i.amt <= AccountOf(acct, last'.i.a).amount
        /\ AccountOf(acct, last'.i.d).amount + last'.i.amt <= U64_MAX) =>
         last'.res = "Ok"]_vars

\* the owner W1, who has approved its own key for nothing, has been refused
\* the transfer of the token its account holds
C31_Witness ==
    /\ last.op = "Transfer" /\ last.res = "InsufficientFunds"
    /\ last.i.a = "A1" /\ last.i.d = "A2" /\ last.i.au = "W1" /\ last.i.sg
    /\ last.i.amt = 1 /\ last.i.ro = 0 /\ ~last.i.sfz /\ ~last.i.dfz
    /\ AccountOf(acct, "A1").owner = "W1"
    /\ AccountOf(acct, "A1").delegate = Some("W1")
    /\ AccountOf(acct, "A1").delegated_amount = 0
    /\ AccountOf(acct, "A1").amount = 1
    /\ AccountOf(acct, "A2").amount = 1

\* C31, what holds instead: such a Transfer succeeds unless the owner's key is
\* the account's delegate and delegated_amount is smaller than the amount, and
\* then it fails with InsufficientFunds and changes nothing
C31_OwnerSufficesUnlessDelegate ==
    [][(/\ last'.op = "Transfer"
        /\ last'.i.a \in TokenAccounts /\ Initialized(acct, last'.i.a)
        /\ last'.i.d \in TokenAccounts /\ Initialized(acct, last'.i.d)
        /\ last'.i.a # last'.i.d
        /\ AccountOf(acct, last'.i.a).mint = AccountOf(acct, last'.i.d).mint
        /\ last'.i.ro = 0 /\ ~last'.i.sfz /\ ~last'.i.dfz
        /\ AccountOf(acct, last'.i.a).owner = last'.i.au /\ last'.i.sg
        /\ last'.i.amt <= AccountOf(acct, last'.i.a).amount
        /\ AccountOf(acct, last'.i.d).amount + last'.i.amt <= U64_MAX) =>
         IF /\ AccountOf(acct, last'.i.a).delegate = Some(last'.i.au)
            /\ AccountOf(acct, last'.i.a).delegated_amount < last'.i.amt
           THEN last'.res = "InsufficientFunds" /\ acct' = acct
           ELSE last'.res = "Ok"]_vars

---------------------------------------------------------------------------
(* C32: native accounts are never frozen *)

\* C32: every FreezeAccount on an account with is_native = Some(_) fails and
\* changes nothing, with NonNativeNotSupported when the account is writable and
\* is not decoded as frozen; and in every reachable state no account that has
\* been frozen and not thawed since has is_native = Some(_).
C32_NativeNeverFrozen ==
    [][/\ (/\ last'.op = "FreezeAccount"
           /\ last'.i.a \in TokenAccounts /\ Initialized(acct, last'.i.a)
           /\ AccountOf(acct, last'.i.a).is_native.some) =>
            /\ last'.res # "Ok" /\ acct' = acct
            /\ (last'.i.ro = 0 /\ ~last'.i.fz) => last'.res = "NonNativeNotSupported"
       /\ \A a \in hist'.frozen :
            Initialized(acct', a) /\ ~AccountOf(acct', a).is_native.some]_vars

\* the freeze authority's FreezeAccount on the native account A1 has been
\* refused while the account A2 of M1 is frozen
C32_Witness ==
    /\ last.op = "FreezeAccount" /\ last.res = "NonNativeNotSupported"
    /\ last.i.a = "A1"
    /\ AccountOf(acct, "A1").is_native.some
    /\ hist.frozen = {"A2"}

---------------------------------------------------------------------------
(* C33: InitializeAccount and the storage owner of the mint *)

\* C33: an InitializeAccount whose mint account's storage is not owned by the
\* token program fails with IncorrectProgramId, and every initialized token
\* account names a mint whose storage the token program owns.
C33_ForeignMintRefused ==
    [][/\ (/\ last'.op = "InitializeAccount"
           /\ acct[last'.i.m].owner # TOKEN) => last'.res = "IncorrectProgramId"
       /\ \A a \in TokenAccounts :
            Initialized(acct', a) => acct'[AccountOf(acct', a).mint].owner = TOKEN]_vars

\* InitializeAccount has bound A1 to the mint record M1 in storage owned by
\* another program
C33_Witness ==
    /\ last.op = "InitializeAccount" /\ last.res = "Ok"
    /\ last.i.a = "A1" /\ last.i.m = "M1"
    /\ acct["M1"].owner = SYSTEM
    /\ Initialized(acct, "A1") /\ AccountOf(acct, "A1").mint = "M1"

\* what holds instead: the minimal processor refuses a mint in storage that it
\* does not own, with IncorrectProgramId once the new account has passed the
\* rent sysvar, unpack, AlreadyInitialized and rent-exemption checks
C33_ForeignMintRefusedMinimal ==
    [][(/\ last'.op = "minimal InitializeAccount"
        /\ acct[last'.i.m].owner # MINIMAL) =>
         /\ last'.res # "Ok" /\ acct' = acct
         /\ last'.res \in {"IncorrectProgramId", "InvalidArgument", "InvalidAccountData",
                           "AlreadyInitialized", "NotRentExempt"}]_vars

---------------------------------------------------------------------------
(* C34: the record codec *)

\* Pack::pack of a record into the buffer of M1 or A1: the Mint and Account
\* values the handlers hand to it; an Account value carries the is_frozen the
\* processor assigns (processor.rs 161, 931, 1037)
PackRecord ==
    LET MintRecords ==
          [mint_authority : {None, Some("W1")}, supply : {0, U64_MAX},
           decimals : Decimals, is_initialized : BOOLEAN, freeze_authority : FreezeKeys]
        AccountRecords ==
          [mint : {"M1"}, owner : Owners, amount : {0, U64_MAX},
           is_initialized : BOOLEAN, is_native : {None, Some(1)},
           delegate : {None, Some("W2")}, delegated_amount : {0, 1},
           is_frozen : BOOLEAN]
    IN \E k \in {"M1", "A1"} :
         \E r \in IF k = "M1" THEN MintRecords ELSE AccountRecords :
           /\ acct' = Store(acct, k, IF k = "M1"
                                       THEN Mint_pack_into_slice(r, acct[k].data)
                                       ELSE Account_pack_into_slice(r, acct[k].data))
           /\ last' = [op |-> "pack", res |-> "Ok", i |-> [a |-> k], v |-> r]
           /\ hist' = hist

\* Pack::unpack_unchecked of the buffer of M1 or A1; the is_frozen that the
\* processor reads from the decoded Account is not among the decoded bytes
UnpackRecord ==
    \E k \in {"M1", "A1"}, is_frozen \in BOOLEAN :
      LET r == IF k = "M1" THEN Mint_unpack_unchecked(acct[k].data)
               ELSE Account_unpack_unchecked(acct[k].data)
      IN /\ k = "M1" => ~is_frozen
         /\ acct' = acct
         /\ last' = [op |-> "unpack_unchecked", res |-> r.err, i |-> [a |-> k],
                     v |-> IF r.err # "Ok" THEN <<>>
                           ELSE IF k = "M1" THEN r.v
                           ELSE [is_frozen |-> is_frozen] @@ r.v]
         /\ hist' = hist

SpecCodec == Init /\ [][PackRecord \/ UnpackRecord]_vars

\* C34: decoding the buffer a record was encoded into returns the record in
\* every field: for a Mint the five stored fields, for an Account mint, owner,
\* amount, is_initialized, is_native, delegate, delegated_amount and is_frozen.
C34_RoundTrip ==
    [][(/\ last.op = "pack" /\ last'.op = "unpack_unchecked"
        /\ last'.i.a = last.i.a) =>
         last'.res = "Ok" /\ last'.v = last.v]_vars

\* a packed Account has been decoded with its stored fields, and with an
\* is_frozen that the buffer does not hold
C34_Witness ==
    /\ last.op = "unpack_unchecked" /\ last.res = "Ok" /\ last.i.a = "A1"
    /\ last.v.is_initialized /\ last.v.amount = U64_MAX
    /\ last.v.delegate = Some("W2") /\ last.v.delegated_amount = 1
    /\ last.v.is_native = None /\ ~last.v.is_frozen

\* what holds instead: the round trip returns every field that state.rs stores
C34_RoundTripStored ==
    [][(/\ last.op = "pack" /\ last'.op = "unpack_unchecked"
        /\ last'.i.a = last.i.a) =>
         /\ last'.res = "Ok"
         /\ \A f \in DOMAIN last.v \ {"is_frozen"} : last'.v[f] = last.v[f]]_vars

---------------------------------------------------------------------------
(* C35: the frame of an account's mint and owner fields *)

\* C35: an initialized token account stays initialized, with the same mint and
\* the same owner, through every InitializeAccount, Transfer, MintTo, Burn,
\* Approve, FreezeAccount, ThawAccount, SyncNative and CloseAccount, except
\* through the successful CloseAccount that closes it.
C35_IdentityFrame ==
    [][\A a \in TokenAccounts :
         (/\ Initialized(acct, a)
          /\ ~(last'.op = "CloseAccount" /\ last'.res = "Ok" /\ last'.i.a = a)) =>
           /\ Initialized(acct', a)
           /\ AccountOf(acct', a).mint = AccountOf(acct, a).mint
           /\ AccountOf(acct', a).owner = AccountOf(acct, a).owner]_vars

\* an Approve on A1 has succeeded and changed the record of A1, which still
\* belongs to W1 and to the mint M1
C35_Witness ==
    /\ last.op = "Approve" /\ last.res = "Ok" /\ last.i.a = "A1"
    /\ Initialized(acct, "A1")
    /\ AccountOf(acct, "A1").delegate.some
    /\ AccountOf(acct, "A1").mint = "M1" /\ AccountOf(acct, "A1").owner = "W1"

\* with SetAuthority among the instructions: the mint field never changes, and
\* the owner field changes only in a successful SetAuthority(AccountOwner) on
\* the account
C35_OwnerBySetAuthority ==
    [][\A a \in TokenAccounts :
         (Initialized(acct, a) /\ Initialized(acct', a)) =>
           /\ AccountOf(acct', a).mint = AccountOf(acct, a).mint
           /\ AccountOf(acct', a).owner # AccountOf(acct, a).owner =>
                /\ last'.op = "SetAuthority" /\ last'.res = "Ok"
                /\ last'.i.a = a /\ last'.i.ty = "AccountOwner"]_vars

---------------------------------------------------------------------------
(* C36: transfers into a frozen account *)

\* C36 as stated: a Transfer whose destination has been frozen, and not thawed
\* since, fails with AccountFrozen and changes no account, whoever signs and
\* whatever the amount.
C36_FrozenDestination ==
    [][(last'.op = "Transfer" /\ last'.i.d \in hist.frozen) =>
         (last'.res = "AccountFrozen" /\ acct' = acct)]_vars

\* a Transfer has credited A2 while A2 is frozen
C36_Witness ==
    /\ last.op = "Transfer" /\ last.res = "Ok"
    /\ last.i.a = "A1" /\ last.i.d = "A2"
    /\ "A2" \in hist.frozen
    /\ AccountOf(acct, "A2").amount = 2

\* what holds instead: when the destination is decoded as frozen, the Transfer
\* fails with AccountFrozen and changes nothing, whoever signs and whatever the
\* amount, both accounts being initialized and writable and the source not being
\* decoded as frozen
C36_DecodedFrozenDestination ==
    [][(/\ last'.op = "Transfer" /\ last'.i.dfz /\ ~last'.i.sfz
        /\ last'.i.a \in TokenAccounts /\ Initialized(acct, last'.i.a)
        /\ last'.i.d \in TokenAccounts /\ Initialized(acct, last'.i.d)
        /\ last'.i.ro = 0) =>
         (last'.res = "AccountFrozen" /\ acct' = acct)]_vars

---------------------------------------------------------------------------
(* C37: the frame of a frozen account *)

\* C37 as stated: while an account stays frozen (from a successful FreezeAccount
\* to the next successful ThawAccount on it), its record is changed only by a
\* successful CloseAccount or MintTo, its amount never decreases, and its owner,
\* delegate and delegated_amount never change.
C37_FrozenFrame ==
    [][\A a \in hist.frozen \cap hist'.frozen :
         acct'[a] # acct[a] =>
           /\ last'.res = "Ok" /\ last'.op \in {"CloseAccount", "MintTo"}
           /\ last'.op = "MintTo" =>
                /\ AccountOf(acct', a).amount >= AccountOf(acct, a).amount
                /\ AccountOf(acct', a).owner = AccountOf(acct, a).owner
                /\ AccountOf(acct', a).delegate = AccountOf(acct, a).delegate
                /\ AccountOf(acct', a).delegated_amount
                     = AccountOf(acct, a).delegated_amount]_vars

\* a Transfer out of A1 has emptied it while it is frozen
C37_Witness ==
    /\ last.op = "Transfer" /\ last.res = "Ok"
    /\ last.i.a = "A1" /\ last.i.d = "A2"
    /\ "A1" \in hist.frozen
    /\ AccountOf(acct, "A1").amount = 0

---------------------------------------------------------------------------
(* C38: delegate and delegated_amount *)

\* C38: in every reachable state, every initialized token account whose
\* delegate is None has delegated_amount = 0.
C38_NoAllowanceWithoutDelegate ==
    \A a \in TokenAccounts :
      (Initialized(acct, a) /\ AccountOf(acct, a).delegate = None) =>
        AccountOf(acct, a).delegated_amount = 0

\* A1 had the delegate W2, whose key is still in the body of the option, and a
\* delegate Transfer that used up the allowance has cleared it
C38_Witness ==
    /\ Initialized(acct, "A1")
    /\ acct["A1"].data.delegate = [tag |-> 0, body |-> "W2"]
    /\ AccountOf(acct, "A1").delegate = None
    /\ AccountOf(acct, "A1").delegated_amount = 0
    /\ AccountOf(acct, "A1").amount = 0
    /\ Initialized(acct, "A2") /\ AccountOf(acct, "A2").amount = U64_MAX

---------------------------------------------------------------------------
(* C39: where Overflow can come from *)

\* C39: on a ledger built by instructions from a fresh mint and non-native
\* accounts, no Transfer and no Burn returns Overflow; an instruction that
\* returns Overflow is a MintTo.
C39_OverflowOnlyFromMintTo ==
    [][/\ last'.op \in {"Transfer", "Burn"} => last'.res # "Overflow"
       /\ last'.res = "Overflow" => last'.op = "MintTo"]_vars

\* a Transfer has filled A2 to the u64 maximum, which is also the supply of M1
C39_Witness ==
    /\ last.op = "Transfer" /\ last.res = "Ok"
    /\ last.i.a = "A1" /\ last.i.d = "A2" /\ last.i.amt > 0
    /\ AccountOf(acct, "A2").amount = U64_MAX
    /\ MintRecord(acct, "M1").supply = U64_MAX

\* a MintTo beyond the u64 maximum has been refused with Overflow
C39_WitnessMintTo ==
    /\ last.op = "MintTo" /\ last.res = "Overflow"

---------------------------------------------------------------------------
(* C40: the two processors side by side *)

minimal_Mint_pack_into_slice(mint, dst) ==
    [len |-> MintLEN,
     mint_authority |-> mint.mint_authority,
     supply |-> mint.supply,
     decimals |-> mint.decimals,
     is_initialized |-> BoolByte(mint.is_initialized)]

minimal_process_initialize_mint(ac, mint_key, rent_sysvar, decimals, mint_authority) ==
    LET mint_info == ac[mint_key]
        mint_data_len == mint_info.data.len
        \* Mint::unpack_unchecked: the length, then the decoding
        um == IF mint_info.data.len # MintLEN THEN [err |-> "InvalidAccountData"]
              ELSE IF mint_info.data.is_initialized \notin {0, 1}
                THEN [err |-> "InvalidAccountData"]
              ELSE [err |-> "Ok",
                    v |-> [mint_authority |-> mint_info.data.mint_authority,
                           supply |-> mint_info.data.supply,
                           decimals |-> mint_info.data.decimals,
                           is_initialized |-> (mint_info.data.is_initialized = 1)]]
    IN IF Rent_from_account_info(rent_sysvar) # "Ok"
         THEN Fail(ac, Rent_from_account_info(rent_sysvar))
       ELSE IF um.err # "Ok" THEN Fail(ac, um.err)
       ELSE IF um.v.is_initialized THEN Fail(ac, "AlreadyInitialized")
       ELSE IF ~is_exempt(mint_info.lamports, mint_data_len) THEN Fail(ac, "NotRentExempt")
       ELSE Done(Store(ac, mint_key,
                       minimal_Mint_pack_into_slice(
                           [um.v EXCEPT !.mint_authority = mint_authority,
                                        !.decimals = decimals,
                                        !.supply = 0,
                                        !.is_initialized = TRUE],
                           mint_info.data)))

minimal_process_mint_to(ac, mint_key, destination_key, authority, is_signer, amount) ==
    LET mint_info == ac[mint_key]
        destination_account_info == ac[destination_key]
        ud == minimal_Account_unpack(destination_account_info.data)
        um == minimal_Mint_unpack(mint_info.data)
        d == checked_add(ud.v.amount, amount)
        s == checked_add(um.v.supply, amount)
    IN IF ud.err # "Ok" THEN Fail(ac, ud.err)
       ELSE IF mint_key # ud.v.mint THEN Fail(ac, "MintMismatch")
       ELSE IF um.err # "Ok" THEN Fail(ac, um.err)
       ELSE IF um.v.mint_authority # authority THEN Fail(ac, "InvalidOwner")
       ELSE IF ~is_signer THEN Fail(ac, "MissingRequiredSignature")
       ELSE IF ~d.some THEN Fail(ac, "Overflow")
       ELSE IF ~s.some THEN Fail(ac, "Overflow")
       ELSE Done(Store(Store(ac, destination_key,
                             minimal_Account_pack_into_slice(
                                 [ud.v EXCEPT !.amount = d.v],
                                 destination_account_info.data)),
                       mint_key,
                       minimal_Mint_pack_into_slice([um.v EXCEPT !.supply = s.v],
                                                    mint_info.data)))

minimal_process_burn(ac, source_key, mint_key, authority, is_signer, amount) ==
    LET source_account_info == ac[source_key]
        mint_info == ac[mint_key]
        us == minimal_Account_unpack(source_account_info.data)
        um == minimal_Mint_unpack(mint_info.data)
        a == checked_sub(us.v.amount, amount)
        s == checked_sub(um.v.supply, amount)
    IN IF us.err # "Ok" THEN Fail(ac, us.err)
       ELSE IF um.err # "Ok" THEN Fail(ac, um.err)
       ELSE IF us.v.amount < amount THEN Fail(ac, "InsufficientFunds")
       ELSE IF mint_key # us.v.mint THEN Fail(ac, "MintMismatch")
       ELSE IF us.v.owner # authority THEN Fail(ac, "InvalidOwner")
       ELSE IF ~is_signer THEN Fail(ac, "MissingRequiredSignature")
       ELSE IF ~a.some THEN Fail(ac, "Overflow")
       ELSE IF ~s.some THEN Fail(ac, "Overflow")
       ELSE Done(Store(Store(ac, source_key,
                             minimal_Account_pack_into_slice(
                                 [us.v EXCEPT !.amount = a.v],
                                 source_account_info.data)),
                       mint_key,
                       minimal_Mint_pack_into_slice([um.v EXCEPT !.supply = s.v],
                                                    mint_info.data)))

\* One instruction is given to both processors, each on its own copy of the
\* accounts: acct.mvp is owned by the token_mvp program, acct.min by the minimal
\* one. The accounts are writable, the native mint is not among them, and no
\* account is frozen.
BothInitializeMint ==
    \E i \in InitializeMintInputs :
      LET r == process_initialize_mint(acct.mvp, i.a, i.rs, i.dec, i.ma, i.fa)
          m == minimal_process_initialize_mint(acct.min, i.a, i.rs, i.dec, i.ma)
      IN /\ i.a # NATIVE
         /\ acct' = [mvp |-> r.acct, min |-> m.acct]
         /\ last' = [op |-> "InitializeMint", res |-> r.res, min |-> m.res,
                     i |-> [a |-> i.a]]
         /\ hist' = hist

BothInitializeAccount ==
    \E i \in InitializeAccountInputs :
      LET r == process_initialize_account(acct.mvp, i.a, i.m, i.o, i.rs)
          m == minimal_process_initialize_account(MINIMAL, acct.min, i.a, i.m, i.o, i.rs)
      IN /\ i.m # NATIVE
         /\ acct' = [mvp |-> r.acct, min |-> m.acct]
         /\ last' = [op |-> "InitializeAccount", res |-> r.res, min |-> m.res,
                     i |-> [a |-> i.a]]
         /\ hist' = hist

BothTransfer ==
    \E i \in TransferInputs :
      LET r == process_transfer(acct.mvp, i.a, i.d, i.au, i.sg, TRUE, TRUE, i.amt,
                                FALSE, FALSE)
          m == minimal_process_transfer(acct.min, i.a, i.d, i.au, i.sg, i.amt)
      IN /\ i.ro = 0 /\ ~i.sfz /\ ~i.dfz
         /\ acct' = [mvp |-> r.acct, min |-> m.acct]
         /\ last' = [op |-> "Transfer", res |-> r.res, min |-> m.res,
                     i |-> [a |-> i.a, d |-> i.d, amt |-> i.amt]]
         /\ hist' = hist

BothMintTo ==
    \E i \in MintToInputs :
      LET r == process_mint_to(acct.mvp, i.m, i.a, i.au, i.sg, TRUE, TRUE, i.amt)
          m == minimal_process_mint_to(acct.min, i.m, i.a, i.au, i.sg, i.amt)
      IN /\ i.ro = 0 /\ i.m # NATIVE
         /\ acct' = [mvp |-> r.acct, min |-> m.acct]
         /\ last' = [op |-> "MintTo", res |-> r.res, min |-> m.res, i |-> [a |-> i.a]]
         /\ hist' = hist

BothBurn ==
    \E i \in BurnInputs :
      LET r == process_burn(acct.mvp, i.a, i.m, i.au, i.sg, TRUE, TRUE, i.amt, FALSE)
          m == minimal_process_burn(acct.min, i.a, i.m, i.au, i.sg, i.amt)
      IN /\ i.ro = 0 /\ ~i.fz /\ i.m # NATIVE
         /\ acct' = [mvp |-> r.acct, min |-> m.acct]
         /\ last' = [op |-> "Burn", res |-> r.res, min |-> m.res, i |-> [a |-> i.a]]
         /\ hist' = hist

\* both programs start from zeroed, rent-exempt buffers of their own
SpecBoth ==
    /\ acct = [mvp |-> Allocated(minimum_balance(AccountLEN), minimum_balance(MintLEN)),
               min |-> [k \in Accounts |->
                          [lamports |-> 1,
                           owner |-> IF k = NATIVE THEN SYSTEM ELSE MINIMAL,
                           data |-> IF k \in TokenAccounts
                                      THEN minimal_Account_pack_into_slice(
                                               [mint |-> ZeroKey, owner |-> ZeroKey,
                                                amount |-> 0, is_initialized |-> FALSE],
                                               <<>>)
                                      ELSE [len |-> MintLEN, mint_authority |-> ZeroKey,
                                            supply |-> 0, decimals |-> 0,
                                            is_initialized |-> 0]]]]
    /\ last = [op |-> "Init", res |-> "Ok", min |-> "Ok", i |-> <<>>]
    /\ hist = NoHistory
    /\ [][\/ BothInitializeMint
          \/ BothInitializeAccount
          \/ BothTransfer
          \/ BothMintTo
          \/ BothBurn]_vars

\* C40 as stated: after every instruction the two processors have both accepted
\* it or both rejected it, and every token account holds the same amount and the
\* mint the same supply on both sides.
C40_SideBySide ==
    [][/\ (last'.res = "Ok") <=> (last'.min = "Ok")
       /\ \A a \in TokenAccounts :
            /\ acct'.mvp[a].data.is_initialized = acct'.min[a].data.is_initialized
            /\ acct'.mvp[a].data.amount = acct'.min[a].data.amount
       /\ acct'.mvp["M1"].data.is_initialized = acct'.min["M1"].data.is_initialized
       /\ acct'.mvp["M1"].data.supply = acct'.min["M1"].data.supply]_vars

\* a Transfer of 2 from A1, which holds 1, to A1 itself has been accepted by
\* token_mvp and rejected by the minimal processor
C40_Witness ==
    /\ last.op = "Transfer" /\ last.i.a = "A1" /\ last.i.d = "A1" /\ last.i.amt = 2
    /\ last.res = "Ok" /\ last.min = "InsufficientFunds"
    /\ acct.mvp["A1"].data.amount = 1 /\ acct.min["A1"].data.amount = 1

\* what holds instead: the two sides hold the same amounts and supplies after
\* every instruction, and accept and reject the same instructions except the
\* transfers from an account to itself
C40_SideBySideButSelfTransfer ==
    [][/\ ~(last'.op = "Transfer" /\ last'.i.a = last'.i.d) =>
            ((last'.res = "Ok") <=> (last'.min = "Ok"))
       /\ (last'.op = "Transfer" /\ last'.i.a = last'.i.d) =>
            (last'.min = "Ok" => last'.res = "Ok")
       /\ \A a \in TokenAccounts :
            /\ acct'.mvp[a].data.is_initialized = acct'.min[a].data.is_initialized
            /\ acct'.mvp[a].data.amount = acct'.min[a].data.amount
       /\ acct'.mvp["M1"].data.is_initialized = acct'.min["M1"].data.is_initialized
       /\ acct'.mvp["M1"].data.supply = acct'.min["M1"].data.supply]_vars

\* a Transfer of 1 from A1 to A2 has been accepted by both processors
C40_WitnessAgree ==
    /\ last.op = "Transfer" /\ last.i.a = "A1" /\ last.i.d = "A2" /\ last.i.amt = 1
    /\ last.res = "Ok" /\ last.min = "Ok"
    /\ acct.mvp["A2"].data.amount = 1 /\ acct.min["A2"].data.amount = 1

====
